---- MODULE Spec2Model ----
(***************************************************************************)
(* Credential lifecycle of the Google auth microservice: the rotating      *)
(* session credential (src/auth.ts, sessions table of src/database.ts) and *)
(* the per-connection provider tokens (tokens table, getValidAccessToken,  *)
(* exchangeCodeAndStoreTokens).                                            *)
(*                                                                         *)
(* The process is a single Node.js event loop over a synchronous SQLite    *)
(* binding: a function without `await` runs to completion in one step;     *)
(* a function with `await` is split at each await and other requests may   *)
(* run between the parts.  Every SQL statement is its own transaction      *)
(* (no BEGIN/COMMIT anywhere in the source), so the statements that ran    *)
(* before an exception stay committed.                                     *)
(*                                                                         *)
(* Time is counted in units of MsPerUnit milliseconds: 30 days in          *)
(* milliseconds does not fit the checker's integers.                       *)
(***************************************************************************)
EXTENDS Integers, Sequences, FiniteSets, TLC

\* ------------------------------------------------------------------ bounds
\* Size of the space newRefreshToken draws from (randomBytes(48) in the
\* source): small, so that a collision with a stored hash is reachable.
NumTokens == 3
\* The clock may be advanced this many times.
MaxTicks == 1
\* Number of session-manager calls served in a run.
MaxRequests == 4
\* Number of credential-store / refresher calls started in a run.
MaxOps == 2
\* Largest tokens table a single store call is tried on.
MaxRows == 2
\* Number of rows an old release left in its tokens table, at most.
MaxLegacy == 2
\* Number of times the process is started.
MaxBoots == 3

\* --------------------------------------------------------------- constants
MsPerUnit == 1000
SkewMs == 30000
Skew == SkewMs \div MsPerUnit
SessionTtl == 30 * 24 * 60 * 60 * (1000 \div MsPerUnit)
\* Date.now() at start: any positive instant (the epoch itself is excluded,
\* no run of the service happens at 1970-01-01T00:00:00Z).
Now0 == 100

Users == {1, 2}
RawTokens == 1 .. NumTokens
TickSteps == {1, SessionTtl}

\* SQL NULL of a TEXT column / of an INTEGER column.
NULL == "NULL"
NullInt == -1

VARIABLES
  now,          \* Date.now()
  ticks,        \* how often the clock was advanced
  sessions,     \* sessions table: sequence of rows, id = position
  spc,          \* per request slot: "idle" | "arrived" | "done"
  sreq,         \* per request slot: the call [op, tok, user, overlap]
  sres,         \* per request slot: the handler's outcome
  served,       \* number of requests accepted so far
  rotatedAway   \* raw tokens for which a rotation has succeeded (history)

svars == <<now, ticks, sessions, spc, sreq, sres, served, rotatedAway>>

VARIABLES
  tokens,    \* tokens table: sequence of rows (id, updated_at left out)
  users,     \* users table
  pc,        \* per caller: "idle" | "refreshing" | "exchanging" | "profiling" | "done"
  call,      \* per caller: the running call and its parameters
  snap,      \* per caller: `row` read by getValidAccessToken
  resp,      \* per caller: what the provider answered last
  ret,       \* per caller: how the call ended [kind, val]
  calls,     \* per caller: provider refresh calls made by the running call
  ops,       \* number of calls started
  storeCall  \* history: the last direct store call [op, params, before]

tvars == <<tokens, users, pc, call, snap, resp, ret, calls, ops, storeCall>>
tvarsButTokens == <<users, pc, call, snap, resp, ret, calls, ops, storeCall>>

VARIABLES
  user_version,   \* PRAGMA user_version of the database file
  tokensShape,    \* table `tokens`: "none" | "legacy" (2-part key) | "v1" (4-part key)
  hasTokensNew,   \* table `tokens_new` exists
  tokens_new,     \* rows of table `tokens_new`
  tokens_lookup,  \* index `tokens_lookup` exists
  boot,           \* the process: "down" | "migrating" | "listening" | "failed"
  mstep,          \* next statement of migrateTokensToV1 to run
  boots,          \* number of process starts
  legacy0         \* history: the tokens rows the old release left behind

mvars == <<user_version, tokensShape, hasTokensNew, tokens_new, tokens_lookup,
           boot, mstep, boots, legacy0>>

VARIABLES
  config,   \* the process configuration (return-URL allowlists), read once
  fnCall,   \* history: the last read-only call [op, arg, result]
  oauthStates  \* history: the state values the connect handler has produced

fvars == <<config, fnCall, oauthStates>>

NoFnCall == [op |-> "none", arg |-> <<>>, result |-> <<>>]
\* ALLOWED_RETURN_ORIGINS and ALLOWED_RETURN_HOST_SUFFIXES both unset
NoAllowlist == [allowedReturnOrigins |-> <<>>, allowedReturnHostSuffixes |-> <<>>]

\* The state in which requests are served: the schema is at version 1.
Migrated ==
  /\ user_version = 1
  /\ tokensShape = "v1"
  /\ hasTokensNew = FALSE
  /\ tokens_new = <<>>
  /\ tokens_lookup = TRUE
  /\ boot = "listening"
  /\ mstep = "done"
  /\ boots = 1
  /\ legacy0 = <<>>

Slots == {"r1", "r2"}

\* ------------------------------------------------------- sessions table
sha256Hex(input) == <<"sha256", input>>

createSessionThrows_never(S, refreshTokenHash) == FALSE

\* INSERT INTO sessions ...: refresh_token_hash is UNIQUE, a duplicate
\* makes the statement throw and inserts nothing.
createSessionThrows(S, refreshTokenHash) ==
  \E i \in 1 .. Len(S) : S[i].refresh_token_hash = refreshTokenHash

createSession(S, userId, refreshTokenHash, expiresAt) ==
  Append(S, [user_id |-> userId, refresh_token_hash |-> refreshTokenHash,
             expires_at |-> expiresAt, revoked_at |-> NullInt,
             last_used_at |-> NullInt])

\* id of the row with that hash, 0 when there is none
findSessionByRefreshHash(S, refreshTokenHash) ==
  IF \E i \in 1 .. Len(S) : S[i].refresh_token_hash = refreshTokenHash
  THEN CHOOSE i \in 1 .. Len(S) : S[i].refresh_token_hash = refreshTokenHash
  ELSE 0

touchSession(S, id, nowMs) ==
  [S EXCEPT ![id].last_used_at = nowMs]

revokeSession_onlyTouches(S, id, nowMs) ==
  [S EXCEPT ![id].last_used_at = nowMs]

revokeSession(S, id, nowMs) ==
  [S EXCEPT ![id].revoked_at = nowMs, ![id].last_used_at = nowMs]

\* JavaScript truthiness of a nullable number column: NULL and 0 are falsy.
Truthy(n) == n # NullInt /\ n # 0

\* -------------------------------------------------------- session manager
NoResult == [kind |-> "none", userId |-> 0, refreshToken |-> 0, expiresAt |-> 0]
NullResult == [NoResult EXCEPT !.kind = "null"]
ThrowResult == [NoResult EXCEPT !.kind = "throw"]

createRefreshSession_returnsStored(S, userId, fresh, t) ==
  IF createSessionThrows(S, sha256Hex(fresh))
  THEN [sessions |-> S, ret |-> ThrowResult]
  ELSE [sessions |-> createSession(S, userId, sha256Hex(fresh), t + SessionTtl),
        ret |-> [kind |-> "ok", userId |-> userId,
                 refreshToken |-> IF Len(S) > 0 THEN S[1].refresh_token_hash[2]
                                  ELSE fresh,
                 expiresAt |-> t + SessionTtl]]

\* createRefreshSession(userId) with `fresh` the value newRefreshToken drew.
\* Result: the table afterwards and what the caller gets.
createRefreshSession(S, userId, fresh, t) ==
  IF createSessionThrows(S, sha256Hex(fresh))
  THEN [sessions |-> S, ret |-> ThrowResult]
  ELSE [sessions |-> createSession(S, userId, sha256Hex(fresh), t + SessionTtl),
        ret |-> [kind |-> "ok", userId |-> userId, refreshToken |-> fresh,
                 expiresAt |-> t + SessionTtl]]

rotateRefreshSession_ignoresRevoked(S, refreshToken, fresh, t, t2) ==
  LET id == findSessionByRefreshHash(S, sha256Hex(refreshToken)) IN
  IF id = 0 THEN [sessions |-> S, ret |-> NullResult]
  ELSE IF S[id].expires_at <= t THEN [sessions |-> S, ret |-> NullResult]
  ELSE createRefreshSession(revokeSession(touchSession(S, id, t), id, t),
                            S[id].user_id, fresh, t2)

rotateRefreshSession_expiryStrict(S, refreshToken, fresh, t, t2) ==
  LET id == findSessionByRefreshHash(S, sha256Hex(refreshToken)) IN
  IF id = 0 THEN [sessions |-> S, ret |-> NullResult]
  ELSE IF Truthy(S[id].revoked_at) THEN [sessions |-> S, ret |-> NullResult]
  ELSE IF S[id].expires_at < t THEN [sessions |-> S, ret |-> NullResult]
  ELSE createRefreshSession(revokeSession(touchSession(S, id, t), id, t),
                            S[id].user_id, fresh, t2)

\* t is Date.now() read by rotateRefreshSession itself, t2 the one read
\* afterwards by the createRefreshSession it calls (t2 >= t).
rotateRefreshSession(S, refreshToken, fresh, t, t2) ==
  LET id == findSessionByRefreshHash(S, sha256Hex(refreshToken)) IN
  IF id = 0 THEN [sessions |-> S, ret |-> NullResult]
  ELSE IF Truthy(S[id].revoked_at) THEN [sessions |-> S, ret |-> NullResult]
  ELSE IF S[id].expires_at <= t THEN [sessions |-> S, ret |-> NullResult]
  ELSE createRefreshSession(revokeSession(touchSession(S, id, t), id, t),
                            S[id].user_id, fresh, t2)

revokeRefreshSession_absentIsTrue(S, refreshToken, t) ==
  LET id == findSessionByRefreshHash(S, sha256Hex(refreshToken)) IN
  IF id = 0 THEN [sessions |-> S, ret |-> TRUE]
  ELSE IF Truthy(S[id].revoked_at) THEN [sessions |-> S, ret |-> TRUE]
  ELSE [sessions |-> revokeSession(S, id, t), ret |-> TRUE]

\* revokeRefreshSession: ret is the boolean it returns
revokeRefreshSession_revokesAgain(S, refreshToken, t) ==
  LET id == findSessionByRefreshHash(S, sha256Hex(refreshToken)) IN
  IF id = 0 THEN [sessions |-> S, ret |-> FALSE]
  ELSE [sessions |-> revokeSession(S, id, t), ret |-> TRUE]

revokeRefreshSession(S, refreshToken, t) ==
  LET id == findSessionByRefreshHash(S, sha256Hex(refreshToken)) IN
  IF id = 0 THEN [sessions |-> S, ret |-> FALSE]
  ELSE IF Truthy(S[id].revoked_at) THEN [sessions |-> S, ret |-> TRUE]
  ELSE [sessions |-> revokeSession(S, id, t), ret |-> TRUE]

\* --------------------------------------------------- session requests
deleteAllTokensForUser_keepsLegacy(T, userId) ==
  SelectSeq(T, LAMBDA row : row.user_id # userId \/ row.workspace_id = 0)

\* DELETE FROM tokens WHERE user_id=?
deleteAllTokensForUser(T, userId) ==
  SelectSeq(T, LAMBDA row : row.user_id # userId)

\* req.auth?.userId in the logout handler: the route is registered as
\* app.post("/auth/logout", asyncHandler(logout)), without authMiddleware,
\* and nothing else assigns req.auth, so the value is undefined.
logoutAuthUserId == NullInt

SessionOps == {"createRefreshSession", "rotateRefreshSession", "revokeRefreshSession"}
NoRequest == [op |-> "none", tok |-> 0, user |-> 0, overlap |-> FALSE]

SInit ==
  /\ now = Now0
  /\ ticks = 0
  /\ sessions = <<>>
  /\ spc = [r \in Slots |-> "idle"]
  /\ sreq = [r \in Slots |-> NoRequest]
  /\ sres = [r \in Slots |-> NoResult]
  /\ served = 0
  /\ rotatedAway = {}

\* Date.now() moves on between two steps of the event loop.
Tick ==
  /\ ticks < MaxTicks
  /\ \E d \in TickSteps : now' = now + d
  /\ ticks' = ticks + 1
  /\ UNCHANGED <<sessions, spc, sreq, sres, served, rotatedAway>>
  /\ UNCHANGED <<tvars, mvars, fvars>>

\* A request reaches the service; its handler has not run yet.  overlap
\* records that another request with the same operation and token was
\* already waiting, i.e. the two are concurrent.
SArrive(r) ==
  /\ spc[r] \in {"idle", "done"}
  /\ served < MaxRequests
  /\ \E op \in SessionOps, tok \in RawTokens, u \in Users :
       sreq' = [sreq EXCEPT ![r] =
                  [op |-> op,
                   tok |-> IF op = "createRefreshSession" THEN 0 ELSE tok,
                   user |-> IF op = "createRefreshSession" THEN u ELSE 0,
                   overlap |-> \E q \in Slots \ {r} :
                                  /\ spc[q] = "arrived"
                                  /\ sreq[q].op = op
                                  /\ sreq[q].tok = tok
                                  /\ op # "createRefreshSession"]]
  /\ spc' = [spc EXCEPT ![r] = "arrived"]
  /\ sres' = [sres EXCEPT ![r] = NoResult]
  /\ served' = served + 1
  /\ UNCHANGED <<now, ticks, sessions, rotatedAway>>
  /\ UNCHANGED <<tvars, mvars, fvars>>

SCreate(r) ==
  /\ spc[r] = "arrived"
  /\ sreq[r].op = "createRefreshSession"
  /\ \E fresh \in RawTokens :
       LET out == createRefreshSession(sessions, sreq[r].user, fresh, now) IN
       /\ sessions' = out.sessions
       /\ sres' = [sres EXCEPT ![r] = out.ret]
  /\ spc' = [spc EXCEPT ![r] = "done"]
  /\ UNCHANGED <<now, ticks, sreq, served, rotatedAway>>
  /\ UNCHANGED <<tvars, mvars, fvars>>

SRotate(r) ==
  /\ spc[r] = "arrived"
  /\ sreq[r].op = "rotateRefreshSession"
  /\ \E fresh \in RawTokens, t2 \in {now, now + 1} :
       LET out == rotateRefreshSession(sessions, sreq[r].tok, fresh, now, t2) IN
       /\ t2 # now => (ticks < MaxTicks /\ out.ret.kind # "null")
       /\ now' = t2
       /\ ticks' = IF t2 = now THEN ticks ELSE ticks + 1
       /\ sessions' = out.sessions
       /\ sres' = [sres EXCEPT ![r] = out.ret]
       /\ rotatedAway' = IF out.ret.kind = "ok"
                         THEN rotatedAway \cup {sreq[r].tok}
                         ELSE rotatedAway
  /\ spc' = [spc EXCEPT ![r] = "done"]
  /\ UNCHANGED <<sreq, served>>
  /\ UNCHANGED <<tvars, mvars, fvars>>

SRevoke(r) ==
  /\ spc[r] = "arrived"
  /\ sreq[r].op = "revokeRefreshSession"
  /\ LET out == revokeRefreshSession(sessions, sreq[r].tok, now)
         userId == logoutAuthUserId IN
       /\ sessions' = out.sessions
       /\ sres' = [sres EXCEPT ![r] =
                     [NoResult EXCEPT !.kind = IF out.ret THEN "true" ELSE "false"]]
       /\ tokens' = IF out.ret /\ Truthy(userId)
                    THEN deleteAllTokensForUser(tokens, userId)
                    ELSE tokens
  /\ spc' = [spc EXCEPT ![r] = "done"]
  /\ UNCHANGED <<now, ticks, sreq, served, rotatedAway>>
  /\ UNCHANGED <<tvarsButTokens, mvars, fvars>>


\* ===================================================== credential store
\* JavaScript `a || b` and `!a` on nullable strings: null, undefined and ""
\* are falsy.
Falsy(s) == s = NULL \/ s = ""
Or(a, b) == IF Falsy(a) THEN b ELSE a

\* The connections the callers of this model ask for:
\* <<userId, workspaceId, agentId, service>>.
Keys ==
  {<<1, 1, "agentA", "drive">>,
   <<2, 2, "agentB", "calendar">>}

NoRow ==
  [user_id |-> 0, workspace_id |-> 0, workspace_slug |-> NULL, agent_id |-> NULL,
   service |-> NULL, access_token |-> NULL, refresh_token |-> NULL,
   expiry_date |-> NullInt, scopes |-> NULL, connection_id |-> NULL]

KeyOf(row) == <<row.user_id, row.workspace_id, row.agent_id, row.service>>

\* SELECT ... FROM tokens WHERE user_id=? AND workspace_id=? AND agent_id=?
\* AND service=?  with .get(): the first matching row, or undefined (NoRow).
getTokenRow(T, userId, workspaceId, agentId, service) ==
  LET hit(i) == KeyOf(T[i]) = <<userId, workspaceId, agentId, service>> IN
  IF \E i \in 1 .. Len(T) : hit(i)
  THEN T[CHOOSE i \in 1 .. Len(T) : hit(i) /\ \A j \in 1 .. (i - 1) : ~hit(j)]
  ELSE NoRow

RowOfParams(params) ==
  [user_id |-> params.userId, workspace_id |-> params.workspaceId,
   workspace_slug |-> params.workspaceSlug, agent_id |-> params.agentId,
   service |-> params.service, access_token |-> params.accessToken,
   refresh_token |-> params.refreshToken, expiry_date |-> params.expiryDate,
   scopes |-> params.scopes, connection_id |-> params.connectionId]

\* INSERT ... ON CONFLICT(user_id, workspace_id, agent_id, service) DO UPDATE
upsertTokens_alwaysInserts(T, params) ==
  Append(T, RowOfParams(params))

upsertTokens_overwritesRefresh(T, params) ==
  LET new == RowOfParams(params)
      hit(i) == KeyOf(T[i]) = KeyOf(new) IN
  IF \E i \in 1 .. Len(T) : hit(i)
  THEN [i \in 1 .. Len(T) |->
          IF hit(i)
          THEN [T[i] EXCEPT
                  !.access_token = new.access_token,
                  !.refresh_token = new.refresh_token,
                  !.expiry_date = new.expiry_date,
                  !.scopes = new.scopes,
                  !.workspace_slug = new.workspace_slug,
                  !.connection_id = new.connection_id]
          ELSE T[i]]
  ELSE Append(T, new)

upsertTokens(T, params) ==
  LET new == RowOfParams(params)
      hit(i) == KeyOf(T[i]) = KeyOf(new) IN
  IF \E i \in 1 .. Len(T) : hit(i)
  THEN [i \in 1 .. Len(T) |->
          IF hit(i)
          THEN [T[i] EXCEPT
                  !.access_token = new.access_token,
                  !.refresh_token = IF new.refresh_token # NULL
                                    THEN new.refresh_token
                                    ELSE T[i].refresh_token,
                  !.expiry_date = new.expiry_date,
                  !.scopes = new.scopes,
                  !.workspace_slug = new.workspace_slug,
                  !.connection_id = new.connection_id]
          ELSE T[i]]
  ELSE Append(T, new)

\* SQLite compares TEXT with the BINARY collation (byte order); the strings
\* that occur as agent_id or service, in that order.
Collation == <<"agentA", "agentB", "calendar", "drive", "legacy">>
StrLess(a, b) ==
  \E i, j \in 1 .. Len(Collation) : Collation[i] = a /\ Collation[j] = b /\ i < j
\* ORDER BY agent_id ASC, service ASC
PairLess(x, y) ==
  StrLess(x.agent_id, y.agent_id)
  \/ (x.agent_id = y.agent_id /\ StrLess(x.service, y.service))

RECURSIVE OrderBy(_)
OrderBy(S) ==
  IF S = {} THEN <<>>
  ELSE LET m == CHOOSE x \in S : \A y \in S \ {x} : PairLess(x, y) IN
       <<m>> \o OrderBy(S \ {m})

listConnections_keepsEmpty(T, userId, workspaceId) ==
  OrderBy({[agent_id |-> T[i].agent_id, service |-> T[i].service] :
             i \in {i \in 1 .. Len(T) :
                      /\ T[i].user_id = userId
                      /\ T[i].workspace_id = workspaceId
                      /\ T[i].refresh_token # NULL}})

\* SELECT agent_id, service FROM tokens WHERE user_id=? AND workspace_id=?
\* AND refresh_token IS NOT NULL AND refresh_token != ''
\* GROUP BY agent_id, service ORDER BY agent_id ASC, service ASC
listConnections(T, userId, workspaceId) ==
  OrderBy({[agent_id |-> T[i].agent_id, service |-> T[i].service] :
             i \in {i \in 1 .. Len(T) :
                      /\ T[i].user_id = userId
                      /\ T[i].workspace_id = workspaceId
                      /\ T[i].refresh_token # NULL
                      /\ T[i].refresh_token # ""}})

\* users table: a function from the ids present to [email, name, picture].
\* email is UNIQUE (NULLs do not collide); ON CONFLICT(id) only covers id.
upsertUserThrows(U, id, email) ==
  email # NULL /\ \E v \in DOMAIN U : v # id /\ U[v].email = email

upsertUser_mergesNulls(U, id, email, name, picture) ==
  [v \in DOMAIN U \cup {id} |->
     IF v # id THEN U[v]
     ELSE IF id \in DOMAIN U
          THEN [email |-> IF email = NULL THEN U[id].email ELSE email,
                name |-> IF name = NULL THEN U[id].name ELSE name,
                picture |-> IF picture = NULL THEN U[id].picture ELSE picture]
          ELSE [email |-> email, name |-> name, picture |-> picture]]

upsertUser(U, id, email, name, picture) ==
  [v \in DOMAIN U \cup {id} |->
     IF v = id THEN [email |-> email, name |-> name, picture |-> picture]
     ELSE U[v]]

\* getScopesForService(service).join(" ")
getScopesForService(service) ==
  CASE service = "drive" -> "https://www.googleapis.com/auth/drive"
    [] service = "calendar" -> "https://www.googleapis.com/auth/calendar"
    [] service = "forms" -> "https://www.googleapis.com/auth/forms"
    [] service = "gmail" -> "https://www.googleapis.com/auth/gmail"
    [] service = "youtube" -> "https://www.googleapis.com/auth/youtube"
    [] service = "analytics" -> "https://www.googleapis.com/auth/analytics"
    [] OTHER -> ""

\* ============================================ provider client (external)
AccessTokens == {"at1", "at2"}
RefreshTokens == {"rt1", "rt2"}
ProviderErrors == {"invalid_grant", "ETIMEDOUT"}
\* What getToken(code) / refreshAccessToken() may resolve to at instant t.
\* NULL stands for an omitted field, NullInt for an expiry_date that is not
\* a number.
\* Every field takes each of its cases (present / omitted; expiry beyond
\* the skew, on the skew boundary, zero, not a number); the code treats the
\* fields independently of one another.
Credentials(t) ==
  {[access_token |-> "at1", refresh_token |-> "rt1",
    expiry_date |-> t + Skew + 1, scope |-> "openid drive"],
   [access_token |-> "at2", refresh_token |-> "rt2",
    expiry_date |-> t + Skew, scope |-> NULL],
   [access_token |-> "at2", refresh_token |-> NULL,
    expiry_date |-> t + Skew + 1, scope |-> NULL],
   [access_token |-> "at1", refresh_token |-> NULL,
    expiry_date |-> 0, scope |-> "openid drive"],
   [access_token |-> NULL, refresh_token |-> "rt2",
    expiry_date |-> NullInt, scope |-> NULL],
   [access_token |-> NULL, refresh_token |-> NULL,
    expiry_date |-> NullInt, scope |-> NULL]}
NoCredentials ==
  [access_token |-> NULL, refresh_token |-> NULL, expiry_date |-> NullInt,
   scope |-> NULL]
\* userinfo.get(): a profile (ok), or a rejected call.
Profiles ==
  {[ok |-> TRUE, email |-> "ann@example.org", name |-> "Ann", picture |-> "ann.png"],
   [ok |-> TRUE, email |-> "", name |-> NULL, picture |-> ""],
   [ok |-> FALSE, email |-> NULL, name |-> NULL, picture |-> NULL]}
\* Caller-supplied audit metadata of one authorization run.
Runs ==
  {[workspaceSlug |-> "acme", connectionId |-> "conn-1"],
   [workspaceSlug |-> "acme-renamed", connectionId |-> "conn-2"]}


Procs == {"p1", "p2"}

NoCall ==
  [op |-> "none", userId |-> 0, workspaceId |-> 0, agentId |-> NULL,
   service |-> NULL, workspaceSlug |-> NULL, connectionId |-> NULL, readAt |-> 0,
   concurrent |-> FALSE]
NoRet == [kind |-> "none", val |-> NULL]
Returned(v) == [kind |-> "value", val |-> v]
Thrown(e) == [kind |-> "throw", val |-> e]
NoResp == [kind |-> "none", err |-> NULL, credentials |-> NoCredentials]
NoParams ==
  [userId |-> 0, workspaceId |-> 0, workspaceSlug |-> NULL, agentId |-> NULL,
   service |-> NULL, accessToken |-> NULL, refreshToken |-> NULL,
   expiryDate |-> NullInt, scopes |-> NULL, connectionId |-> NULL]
NoStoreCall == [op |-> "none", params |-> NoParams, before |-> <<>>]

\* ================================================= access-token refresher
\* const expiresAt = row.expiry_date ?? 0;
\* const isExpired = !expiresAt || expiresAt <= now + 30_000;
isExpired_skewOffByOne(row, t) ==
  LET expiresAt == IF row.expiry_date = NullInt THEN 0 ELSE row.expiry_date IN
  expiresAt = 0 \/ expiresAt <= t + Skew + 1

isExpired_strict(row, t) ==
  LET expiresAt == IF row.expiry_date = NullInt THEN 0 ELSE row.expiry_date IN
  expiresAt = 0 \/ expiresAt < t + Skew

isExpired(row, t) ==
  LET expiresAt == IF row.expiry_date = NullInt THEN 0 ELSE row.expiry_date IN
  expiresAt = 0 \/ expiresAt <= t + Skew

gvDecision_ignoresRefreshToken(row, t) ==
  IF row = NoRow THEN "notConnected"
  ELSE IF ~isExpired(row, t) /\ ~Falsy(row.access_token) THEN "cacheHit"
  ELSE "refresh"

\* The synchronous head of getValidAccessToken, up to the await.
gvDecision(row, t) ==
  IF Falsy(row.refresh_token) THEN "notConnected"
  ELSE IF ~isExpired(row, t) /\ ~Falsy(row.access_token) THEN "cacheHit"
  ELSE "refresh"

gvWriteBack_noFallback(c, row, credentials) ==
  [userId |-> c.userId,
   workspaceId |-> row.workspace_id,
   workspaceSlug |-> row.workspace_slug,
   agentId |-> row.agent_id,
   service |-> c.service,
   accessToken |-> Or(credentials.access_token, NULL),
   refreshToken |-> Or(credentials.refresh_token, NULL),
   expiryDate |-> credentials.expiry_date,
   scopes |-> Or(credentials.scope, NULL),
   connectionId |-> row.connection_id]

\* The upsertTokens argument built after a successful refresh.
gvWriteBack(c, row, credentials) ==
  [userId |-> c.userId,
   workspaceId |-> row.workspace_id,
   workspaceSlug |-> row.workspace_slug,
   agentId |-> row.agent_id,
   service |-> c.service,
   accessToken |-> Or(credentials.access_token, Or(row.access_token, NULL)),
   refreshToken |-> Or(credentials.refresh_token, NULL),
   expiryDate |-> IF credentials.expiry_date # NullInt
                  THEN credentials.expiry_date ELSE row.expiry_date,
   scopes |-> Or(credentials.scope, Or(row.scopes, NULL)),
   connectionId |-> row.connection_id]

\* return credentials.access_token || row.access_token || null
gvReturn(row, credentials) ==
  Returned(Or(credentials.access_token, Or(row.access_token, NULL)))

\* The upsertTokens argument built by exchangeCodeAndStoreTokens.
exWriteParams(c, credentials) ==
  [userId |-> c.userId,
   workspaceId |-> c.workspaceId,
   workspaceSlug |-> c.workspaceSlug,
   agentId |-> c.agentId,
   service |-> c.service,
   accessToken |-> Or(credentials.access_token, NULL),
   refreshToken |-> Or(credentials.refresh_token, NULL),
   expiryDate |-> credentials.expiry_date,
   scopes |-> Or(credentials.scope, getScopesForService(c.service)),
   connectionId |-> c.connectionId]

\* The store is persistent: the service starts on an empty one, or on one
\* left by an earlier authorization of the first connection.
FirstCall ==
  [NoCall EXCEPT !.op = "exchangeCodeAndStoreTokens", !.userId = 1,
                 !.workspaceId = 1, !.agentId = "agentA", !.service = "drive",
                 !.workspaceSlug = "acme", !.connectionId = "conn-1"]

\* Callers are interchangeable: the second one is only used while the first
\* is busy, which halves the state space without losing an interleaving.
CanStart(p) ==
  /\ pc[p] = "idle"
  /\ p = "p1" \/ pc["p1"] # "idle"

CallersIdle ==
  /\ pc = [p \in Procs |-> "idle"]
  /\ call = [p \in Procs |-> NoCall]
  /\ snap = [p \in Procs |-> NoRow]
  /\ resp = [p \in Procs |-> NoResp]
  /\ ret = [p \in Procs |-> NoRet]
  /\ calls = [p \in Procs |-> 0]
  /\ ops = 0
  /\ storeCall = NoStoreCall

ProcInit ==
  /\ CallersIdle
  /\ fnCall = NoFnCall
  /\ config = NoAllowlist
  /\ oauthStates = {}

TInit ==
  /\ \/ tokens = <<>> /\ users = <<>>
     \/ /\ \E credentials \in Credentials(Now0) :
             tokens = <<RowOfParams(exWriteParams(FirstCall, credentials))>>
        /\ users = upsertUser(<<>>, 1, "ann@example.org", "Ann", "ann.png")
  /\ ProcInit

\* History: a refresh for connection k is waiting for the provider.
InFlightFor(k) ==
  \E q \in Procs :
    /\ pc[q] = "refreshing"
    /\ <<call[q].userId, call[q].workspaceId, call[q].agentId, call[q].service>> = k

\* getValidAccessToken, lines up to `await oauth2Client.refreshAccessToken()`.
\* t is what Date.now() returns: the clock may have moved on since it was
\* last looked at.
GvStart(p) ==
  /\ CanStart(p)
  /\ ops < MaxOps
  /\ ops' = ops + 1
  /\ \E k \in Keys, t \in {now, now + 1} :
       LET row == getTokenRow(tokens, k[1], k[2], k[3], k[4])
           d == gvDecision(row, t) IN
       /\ t # now => ticks < MaxTicks
       /\ now' = t
       /\ ticks' = IF t = now THEN ticks ELSE ticks + 1
       /\ call' = [call EXCEPT ![p] =
                     [NoCall EXCEPT !.op = "getValidAccessToken", !.userId = k[1],
                                    !.workspaceId = k[2], !.agentId = k[3],
                                    !.service = k[4], !.readAt = t,
                                    !.concurrent = InFlightFor(k)]]
       /\ snap' = [snap EXCEPT ![p] = row]
       /\ CASE d = "notConnected" ->
                 /\ ret' = [ret EXCEPT ![p] = Returned(NULL)]
                 /\ pc' = [pc EXCEPT ![p] = "done"]
                 /\ calls' = calls
            [] d = "cacheHit" ->
                 /\ ret' = [ret EXCEPT ![p] = Returned(row.access_token)]
                 /\ pc' = [pc EXCEPT ![p] = "done"]
                 /\ calls' = calls
            [] OTHER ->
                 /\ ret' = ret
                 /\ pc' = [pc EXCEPT ![p] = "refreshing"]
                 /\ calls' = [calls EXCEPT ![p] = calls[p] + 1]
  /\ UNCHANGED <<tokens, users, resp>>
  /\ UNCHANGED <<sessions, spc, sreq, sres, served, rotatedAway, storeCall>>
  /\ UNCHANGED <<mvars, fvars>>

GvRefreshOk_replacesStore(p) ==
  /\ pc[p] = "refreshing"
  /\ \E credentials \in Credentials(now) :
       /\ resp' = [resp EXCEPT ![p] = [NoResp EXCEPT !.kind = "ok",
                                                     !.credentials = credentials]]
       /\ tokens' = upsertTokens(<<>>, gvWriteBack(call[p], snap[p], credentials))
       /\ ret' = [ret EXCEPT ![p] = gvReturn(snap[p], credentials)]
  /\ pc' = [pc EXCEPT ![p] = "done"]
  /\ UNCHANGED <<users, call, snap, calls, ops>>
  /\ UNCHANGED <<svars, mvars, fvars, storeCall>>

\* refreshAccessToken() resolved: write back and return.
GvRefreshOk(p) ==
  /\ pc[p] = "refreshing"
  /\ \E credentials \in Credentials(now) :
       /\ resp' = [resp EXCEPT ![p] = [NoResp EXCEPT !.kind = "ok",
                                                     !.credentials = credentials]]
       /\ tokens' = upsertTokens(tokens, gvWriteBack(call[p], snap[p], credentials))
       /\ ret' = [ret EXCEPT ![p] = gvReturn(snap[p], credentials)]
  /\ pc' = [pc EXCEPT ![p] = "done"]
  /\ UNCHANGED <<users, call, snap, calls, ops>>
  /\ UNCHANGED <<svars, mvars, fvars, storeCall>>

GvRefreshFail_fallsBack(p) ==
  /\ pc[p] = "refreshing"
  /\ \E e \in ProviderErrors :
       /\ resp' = [resp EXCEPT ![p] = [NoResp EXCEPT !.kind = "error", !.err = e]]
       /\ ret' = [ret EXCEPT ![p] = Returned(snap[p].access_token)]
  /\ pc' = [pc EXCEPT ![p] = "done"]
  /\ UNCHANGED <<tokens, users, call, snap, calls, ops>>
  /\ UNCHANGED <<svars, mvars, fvars, storeCall>>

\* refreshAccessToken() rejected: log and rethrow.
GvRefreshFail(p) ==
  /\ pc[p] = "refreshing"
  /\ \E e \in ProviderErrors :
       /\ resp' = [resp EXCEPT ![p] = [NoResp EXCEPT !.kind = "error", !.err = e]]
       /\ ret' = [ret EXCEPT ![p] = Thrown(e)]
  /\ pc' = [pc EXCEPT ![p] = "done"]
  /\ UNCHANGED <<tokens, users, call, snap, calls, ops>>
  /\ UNCHANGED <<svars, mvars, fvars, storeCall>>

\* exchangeCodeAndStoreTokens up to `await oauth2Client.getToken(code)`
ExStart(p) ==
  /\ CanStart(p)
  /\ ops < MaxOps
  /\ ops' = ops + 1
  /\ \E k \in Keys, run \in Runs :
       call' = [call EXCEPT ![p] =
                  [NoCall EXCEPT !.op = "exchangeCodeAndStoreTokens", !.userId = k[1],
                                 !.workspaceId = k[2], !.agentId = k[3],
                                 !.service = k[4],
                                 !.workspaceSlug = run.workspaceSlug,
                                 !.connectionId = run.connectionId]]
  /\ pc' = [pc EXCEPT ![p] = "exchanging"]
  /\ UNCHANGED <<tokens, users, snap, resp, ret, calls>>
  /\ UNCHANGED <<svars, mvars, fvars, storeCall>>

\* getToken(code) rejected: the exception leaves the function.
ExTokenFail(p) ==
  /\ pc[p] = "exchanging"
  /\ \E e \in ProviderErrors :
       /\ resp' = [resp EXCEPT ![p] = [NoResp EXCEPT !.kind = "error", !.err = e]]
       /\ ret' = [ret EXCEPT ![p] = Thrown(e)]
  /\ pc' = [pc EXCEPT ![p] = "done"]
  /\ UNCHANGED <<tokens, users, call, snap, calls, ops>>
  /\ UNCHANGED <<svars, mvars, fvars, storeCall>>

\* getToken(code) resolved; next await is userinfo.get()
ExTokenOk(p) ==
  /\ pc[p] = "exchanging"
  /\ \E credentials \in Credentials(now) :
       resp' = [resp EXCEPT ![p] = [NoResp EXCEPT !.kind = "ok",
                                                   !.credentials = credentials]]
  /\ pc' = [pc EXCEPT ![p] = "profiling"]
  /\ UNCHANGED <<tokens, users, call, snap, ret, calls, ops>>
  /\ UNCHANGED <<svars, mvars, fvars, storeCall>>

\* userinfo.get() settled (a failure is swallowed), then upsertUser and
\* upsertTokens.  upsertUser throws on a duplicate email; upsertTokens is
\* then not reached.
ExStore(p) ==
  /\ pc[p] = "profiling"
  /\ \E prof \in Profiles :
       LET email == IF prof.ok THEN Or(prof.email, NULL) ELSE NULL
           name == IF prof.ok THEN Or(prof.name, NULL) ELSE NULL
           picture == IF prof.ok THEN Or(prof.picture, NULL) ELSE NULL IN
       IF upsertUserThrows(users, call[p].userId, email)
       THEN /\ ret' = [ret EXCEPT ![p] = Thrown("SQLITE_CONSTRAINT_UNIQUE")]
            /\ UNCHANGED <<tokens, users>>
       ELSE /\ users' = upsertUser(users, call[p].userId, email, name, picture)
            /\ tokens' = upsertTokens(tokens, exWriteParams(call[p], resp[p].credentials))
            /\ ret' = [ret EXCEPT ![p] = Returned(NULL)]
  /\ pc' = [pc EXCEPT ![p] = "done"]
  /\ UNCHANGED <<call, snap, resp, calls, ops>>
  /\ UNCHANGED <<svars, mvars, fvars, storeCall>>

\* deleteAllTokensForUser(userId)
DeleteAll(p) ==
  /\ CanStart(p)
  /\ ops < MaxOps
  /\ ops' = ops + 1
  /\ \E u \in Users :
       /\ call' = [call EXCEPT ![p] = [NoCall EXCEPT !.op = "deleteAllTokensForUser",
                                                     !.userId = u]]
       /\ tokens' = deleteAllTokensForUser(tokens, u)
  /\ ret' = [ret EXCEPT ![p] = Returned(NULL)]
  /\ pc' = [pc EXCEPT ![p] = "done"]
  /\ UNCHANGED <<users, snap, resp, calls>>
  /\ UNCHANGED <<svars, mvars, fvars, storeCall>>

\* The caller has consumed the outcome; its locals are gone.
Return(p) ==
  /\ pc[p] = "done"
  /\ pc' = [pc EXCEPT ![p] = "idle"]
  /\ call' = [call EXCEPT ![p] = NoCall]
  /\ snap' = [snap EXCEPT ![p] = NoRow]
  /\ resp' = [resp EXCEPT ![p] = NoResp]
  /\ ret' = [ret EXCEPT ![p] = NoRet]
  /\ calls' = [calls EXCEPT ![p] = 0]
  /\ UNCHANGED <<tokens, users, ops>>
  /\ UNCHANGED <<svars, mvars, fvars, storeCall>>

Next ==
  \/ \E p \in Procs : GvStart(p)
  \/ \E p \in Procs : GvRefreshOk(p)
  \/ \E p \in Procs : GvRefreshFail(p)
  \/ \E p \in Procs : ExStart(p)
  \/ \E p \in Procs : ExTokenFail(p)
  \/ \E p \in Procs : ExTokenOk(p)
  \/ \E p \in Procs : ExStore(p)
  \/ \E p \in Procs : DeleteAll(p)
  \/ \E p \in Procs : Return(p)

vars == <<svars, tvars, mvars, fvars>>

Init == SInit /\ TInit /\ Migrated

\* the session manager alone, on an empty store
InitSession == SInit /\ ProcInit /\ tokens = <<>> /\ users = <<>> /\ Migrated

Spec == Init /\ [][Next]_vars

\* The same callers on a store that holds both connections, each left by
\* an earlier authorization.
SecondCall ==
  [NoCall EXCEPT !.op = "exchangeCodeAndStoreTokens", !.userId = 2,
                 !.workspaceId = 2, !.agentId = "agentB", !.service = "calendar",
                 !.workspaceSlug = "beta", !.connectionId = "conn-2"]

InitConnections ==
  /\ SInit
  /\ Migrated
  /\ ProcInit
  /\ \E c1, c2 \in Credentials(Now0) :
       tokens = <<RowOfParams(exWriteParams(FirstCall, c1)),
                  RowOfParams(exWriteParams(SecondCall, c2))>>
  /\ users = upsertUser(upsertUser(<<>>, 1, "ann@example.org", "Ann", "ann.png"),
                        2, "bob@example.org", "Bob", "bob.png")

SpecConnections == InitConnections /\ [][Next]_vars

SNext ==
  \/ Tick
  \/ \E r \in Slots : SArrive(r)
  \/ \E r \in Slots : SCreate(r)
  \/ \E r \in Slots : SRotate(r)
  \/ \E r \in Slots : SRevoke(r)

SpecSession == InitSession /\ [][SNext]_vars

\* ================================================ single store calls
\* A call of the store API on any table of at most MaxRows connections.
StoreKeys ==
  Keys \cup {<<1, 0, "legacy", "drive">>, <<1, 1, "agentB", "calendar">>,
             <<1, 1, "agentA", "calendar">>}

PriorRows ==
  {[user_id |-> k[1], workspace_id |-> k[2],
    workspace_slug |-> IF k[2] = 0 THEN "legacy" ELSE "acme",
    agent_id |-> k[3], service |-> k[4],
    access_token |-> at, refresh_token |-> rt,
    expiry_date |-> Now0 + Skew + 1, scopes |-> "openid drive",
    connection_id |-> IF k[2] = 0 THEN NULL ELSE "conn-1"] :
   k \in StoreKeys, at \in {NULL, "at1"}, rt \in {NULL, "rt1"}}

PriorStores ==
  {T \in UNION {[1 .. n -> PriorRows] : n \in 0 .. MaxRows} :
     \A i, j \in 1 .. Len(T) : KeyOf(T[i]) = KeyOf(T[j]) => i = j}

UpsertParams ==
  {[userId |-> k[1], workspaceId |-> k[2], workspaceSlug |-> slug,
    agentId |-> k[3], service |-> k[4], accessToken |-> at,
    refreshToken |-> rt, expiryDate |-> ex, scopes |-> sc,
    connectionId |-> cid] :
   k \in StoreKeys, slug \in {"acme", "acme-renamed"}, at \in {NULL, "at2"},
   rt \in {NULL, "rt2", ""}, ex \in {NullInt, 0, Now0 + Skew},
   sc \in {NULL, "openid"}, cid \in {NULL, "conn-2"}}

StoreUsers ==
  upsertUser(upsertUser(<<>>, 1, "ann@example.org", "Ann", "ann.png"),
             2, "bob@example.org", "Bob", NULL)

StoreInit ==
  /\ SInit
  /\ ProcInit
  /\ Migrated
  /\ users = StoreUsers
  /\ tokens \in PriorStores

StoreUpsert ==
  /\ storeCall.op = "none"
  /\ \E params \in UpsertParams :
       /\ tokens' = upsertTokens(tokens, params)
       /\ storeCall' = [op |-> "upsertTokens", params |-> params, before |-> tokens]
  /\ UNCHANGED <<users, pc, call, snap, resp, ret, calls, ops>>
  /\ UNCHANGED <<svars, mvars, fvars>>

StoreDeleteAll ==
  /\ storeCall.op = "none"
  /\ \E u \in Users :
       /\ tokens' = deleteAllTokensForUser(tokens, u)
       /\ storeCall' = [op |-> "deleteAllTokensForUser",
                        params |-> [NoParams EXCEPT !.userId = u],
                        before |-> tokens]
  /\ UNCHANGED <<users, pc, call, snap, resp, ret, calls, ops>>
  /\ UNCHANGED <<svars, mvars, fvars>>

ListArgs == {<<1, 1>>, <<1, 0>>, <<2, 2>>, <<2, 1>>}

StoreList ==
  /\ fnCall.op = "none"
  /\ \E a \in ListArgs :
       fnCall' = [op |-> "listConnections", arg |-> a,
                  result |-> listConnections(tokens, a[1], a[2])]
  /\ UNCHANGED <<config, oauthStates>>
  /\ UNCHANGED <<svars, tvars, mvars>>

StoreNext ==
  \/ StoreUpsert
  \/ StoreDeleteAll
  \/ StoreList

SpecStore == StoreInit /\ [][StoreNext]_vars

\* ============================================== logout with connections
\* The session manager on a store that holds connections: user 1 in two
\* workspaces, user 2 in one.
LogoutRow(k) ==
  [user_id |-> k[1], workspace_id |-> k[2],
   workspace_slug |-> IF k[2] = 0 THEN "legacy" ELSE "acme",
   agent_id |-> k[3], service |-> k[4],
   access_token |-> "at1", refresh_token |-> "rt1",
   expiry_date |-> Now0 + Skew + 1, scopes |-> "openid drive",
   connection_id |-> IF k[2] = 0 THEN NULL ELSE "conn-1"]

LogoutStores ==
  {<<LogoutRow(<<1, 1, "agentA", "drive">>), LogoutRow(<<2, 2, "agentB", "calendar">>),
     LogoutRow(<<1, 0, "legacy", "drive">>)>>,
   <<LogoutRow(<<1, 1, "agentA", "drive">>)>>}

LogoutInit ==
  /\ SInit
  /\ ProcInit
  /\ Migrated
  /\ users = <<>>
  /\ tokens \in LogoutStores

SpecLogout == LogoutInit /\ [][SNext]_vars

\* ==================================================== redirect validator
\* Strings are sequences of tokens: the labels of a host name, and the
\* separators ".", ":" and "//".  A candidate is the text of returnTo:
\* null, the empty string, text that is no absolute URL, or an absolute URL
\* written with a scheme, a host, a port ("" when none is written) and a
\* path.
NullString == [kind |-> "null", scheme |-> "", host |-> <<>>, port |-> "", path |-> ""]
UrlText(scheme, host, port) ==
  [kind |-> "url", scheme |-> scheme, host |-> host, port |-> port, path |-> "/cb"]

\* ALLOWED_RETURN_HOST_SUFFIXES entries
HostSuffix ==
  [dima |-> <<"dima-ai", ".", "com">>,
   com |-> <<"com">>]

\* the returnTo texts the validator is called with
ReturnTo ==
  [null |-> NullString,
   empty |-> [NullString EXCEPT !.kind = "empty"],
   relative |-> [NullString EXCEPT !.kind = "relative", !.path = "/dashboard"],
   devBlana |-> UrlText("https", <<"dev-blana", ".">> \o HostSuffix.dima, ""),
   devBlanaUpper443 |-> UrlText("https", <<"DEV-BLANA", ".">> \o HostSuffix.dima, "443"),
   devBlana8443 |-> UrlText("https", <<"dev-blana", ".">> \o HostSuffix.dima, "8443"),
   devBlanaHttp |-> UrlText("http", <<"dev-blana", ".">> \o HostSuffix.dima, ""),
   multiLevel |-> UrlText("https", <<"a", ".", "b", ".">> \o HostSuffix.dima, ""),
   apex |-> UrlText("https", HostSuffix.dima, ""),
   apexLeadingDot |-> UrlText("https", <<".">> \o HostSuffix.dima, ""),
   evil |-> UrlText("https", <<"evil", ".", "com">>, ""),
   evilTail |-> UrlText("https", <<"dev-blana", ".">> \o HostSuffix.dima
                                   \o <<".", "evil", ".", "com">>, ""),
   lookAlike |-> UrlText("https", <<"xdima-ai", ".", "com">>, ""),
   noHost |-> UrlText("https", <<>>, ""),
   script |-> UrlText("javascript", <<>>, "")]

Candidates == {ReturnTo[k] : k \in DOMAIN ReturnTo}

\* String.prototype.toLowerCase, endsWith, slice(0, n), includes
toLowerCase(h) ==
  [i \in 1 .. Len(h) |-> IF h[i] = "DEV-BLANA" THEN "dev-blana" ELSE h[i]]
endsWith(h, s) ==
  Len(s) <= Len(h) /\ SubSeq(h, Len(h) - Len(s) + 1, Len(h)) = s
slice(h, n) == SubSeq(h, 1, n)
includes(h, x) == \E i \in 1 .. Len(h) : h[i] = x

\* new URL(returnTo): throws on text without a scheme and on a special
\* scheme without a host; lower-cases the host of a special scheme and
\* drops the scheme's default port.
SpecialSchemes == {"http", "https"}
DefaultPort(scheme) ==
  CASE scheme = "http" -> "80"
    [] scheme = "https" -> "443"
    [] OTHER -> ""

parseURL(s) ==
  [ok |-> s.kind = "url" /\ (s.scheme \in SpecialSchemes => s.host # <<>>),
   protocol |-> <<s.scheme, ":">>,
   hostname |-> IF s.scheme \in SpecialSchemes THEN toLowerCase(s.host) ELSE s.host,
   port |-> IF s.port = DefaultPort(s.scheme) THEN "" ELSE s.port]

\* u.origin: scheme, host and port of a special scheme, "null" otherwise
origin(u) ==
  IF u.protocol[1] \in SpecialSchemes
  THEN u.protocol \o <<"//">> \o u.hostname
         \o (IF u.port = "" THEN <<>> ELSE <<":", u.port>>)
  ELSE <<"null">>

suffixMatches_multiLevel(hostname, suffix) ==
  LET suffixWithDot == <<".">> \o suffix IN
  /\ endsWith(hostname, suffixWithDot)
  /\ slice(hostname, Len(hostname) - Len(suffixWithDot)) # <<>>

\* One round of the loop over allowedReturnHostSuffixes: TRUE when it
\* returns returnTo, FALSE when it continues.
suffixMatches(hostname, suffix) ==
  LET suffixWithDot == <<".">> \o suffix IN
  /\ endsWith(hostname, suffixWithDot)
  /\ LET sub == slice(hostname, Len(hostname) - Len(suffixWithDot)) IN
     /\ sub # <<>>
     /\ ~includes(sub, ".")

\* The version before host suffixes existed.
validateReturnTo_originsOnly(cfg, returnTo) ==
  IF returnTo.kind \in {"null", "empty"} THEN NullString
  ELSE LET u == parseURL(returnTo) IN
       IF ~u.ok THEN NullString
       ELSE IF Len(cfg.allowedReturnOrigins) = 0 THEN returnTo
       ELSE IF ~includes(cfg.allowedReturnOrigins, origin(u)) THEN NullString
       ELSE returnTo

\* validateReturnTo(returnTo); null is NullString
validateReturnTo(cfg, returnTo) ==
  IF returnTo.kind \in {"null", "empty"} THEN NullString
  ELSE LET u == parseURL(returnTo) IN
       IF ~u.ok THEN NullString
       ELSE LET hasAnyAllowlist ==
                  \/ Len(cfg.allowedReturnOrigins) > 0
                  \/ Len(cfg.allowedReturnHostSuffixes) > 0
                hostname == toLowerCase(u.hostname) IN
            IF ~hasAnyAllowlist THEN returnTo
            ELSE IF includes(cfg.allowedReturnOrigins, origin(u)) THEN returnTo
            ELSE IF Len(cfg.allowedReturnHostSuffixes) = 0 THEN NullString
            ELSE IF u.protocol # <<"https", ":">> THEN NullString
            ELSE IF u.port # "" /\ u.port # "443" THEN NullString
            ELSE IF \E i \in 1 .. Len(cfg.allowedReturnHostSuffixes) :
                      suffixMatches(hostname, cfg.allowedReturnHostSuffixes[i])
                 THEN returnTo
            ELSE NullString

\* ALLOWED_RETURN_ORIGINS entries
AllowedOrigin ==
  [apex |-> <<"https", ":", "//">> \o HostSuffix.dima,
   devHttp |-> <<"http", ":", "//", "dev-blana", ".">> \o HostSuffix.dima,
   dev8443 |-> <<"https", ":", "//", "dev-blana", ".">> \o HostSuffix.dima
                 \o <<":", "8443">>]

\* the allowlists of a deployment
Config ==
  [none |-> NoAllowlist,
   suffixOnly |-> [allowedReturnOrigins |-> <<>>,
                   allowedReturnHostSuffixes |-> <<HostSuffix.dima>>],
   originOnly |-> [allowedReturnOrigins |-> <<AllowedOrigin.apex>>,
                   allowedReturnHostSuffixes |-> <<>>],
   both |-> [allowedReturnOrigins |-> <<AllowedOrigin.apex>>,
             allowedReturnHostSuffixes |-> <<HostSuffix.dima>>],
   twoSuffixes |-> [allowedReturnOrigins |-> <<>>,
                    allowedReturnHostSuffixes |-> <<HostSuffix.com, HostSuffix.dima>>],
   twoOrigins |-> [allowedReturnOrigins |-> <<AllowedOrigin.devHttp, AllowedOrigin.dev8443>>,
                   allowedReturnHostSuffixes |-> <<HostSuffix.dima>>]]

Configs == {Config[k] : k \in DOMAIN Config}

\* ------------------------------------------------------ bearer credential
\* jwtExpiresInSeconds: 15 * 60
jwtExpiresInSeconds == 900

\* listGrantedServices(userId) of the version before workspaces
listGrantedServices(T, userId) ==
  {T[i].service : i \in {j \in 1 .. Len(T) :
                           T[j].user_id = userId /\ ~Falsy(T[j].refresh_token)}}

\* getUser(userId)?.email ?? null
getUserEmail(U, userId) ==
  IF userId \in DOMAIN U THEN U[userId].email ELSE NULL

\* issueJwt(userId): the claims of the signed token.  jwt.sign adds iat, and
\* exp because expiresIn is given; both are in seconds, which is the unit
\* of t (MsPerUnit milliseconds).
issueJwt(U, userId, t) ==
  [userId |-> userId,
   email |-> getUserEmail(U, userId),
   iat |-> t,
   exp |-> t + jwtExpiresInSeconds]

\* ------------------------------------ calls of the two pure functions
ValidateReturnTo ==
  /\ fnCall.op = "none"
  /\ \E returnTo \in Candidates :
       fnCall' = [op |-> "validateReturnTo", arg |-> returnTo,
                  result |-> validateReturnTo(config, returnTo)]
  /\ UNCHANGED <<config, oauthStates>>
  /\ UNCHANGED <<svars, tvars, mvars>>

IssueJwt_withGrantedServices ==
  /\ fnCall.op = "none"
  /\ \E userId \in Users \cup {3} :
       fnCall' = [op |-> "issueJwt", arg |-> userId,
                  result |-> [userId |-> userId,
                              email |-> getUserEmail(users, userId),
                              grantedServices |-> listGrantedServices(tokens, userId),
                              iat |-> now,
                              exp |-> now + jwtExpiresInSeconds]]
  /\ UNCHANGED <<config, oauthStates>>
  /\ UNCHANGED <<svars, tvars, mvars>>

IssueJwt ==
  /\ fnCall.op = "none"
  /\ \E userId \in Users \cup {3} :
       fnCall' = [op |-> "issueJwt", arg |-> userId,
                  result |-> issueJwt(users, userId, now)]
  /\ UNCHANGED <<config, oauthStates>>
  /\ UNCHANGED <<svars, tvars, mvars>>

\* upsertUser(params), called on its own
UpsertUserArgs ==
  [id : Users \cup {3},
   email : {NULL, "ann@example.org", "new@example.org"},
   name : {NULL, "Nan"},
   picture : {NULL, "nan.png"}]

UpsertUser ==
  /\ fnCall.op = "none"
  /\ \E a \in UpsertUserArgs :
       IF upsertUserThrows(users, a.id, a.email)
       THEN /\ fnCall' = [op |-> "upsertUser", arg |-> a, result |-> "throw"]
            /\ users' = users
       ELSE /\ fnCall' = [op |-> "upsertUser", arg |-> a, result |-> "ok"]
            /\ users' = upsertUser(users, a.id, a.email, a.name, a.picture)
  /\ UNCHANGED <<config, oauthStates>>
  /\ UNCHANGED <<tokens, pc, call, snap, resp, ret, calls, ops, storeCall>>
  /\ UNCHANGED <<svars, mvars>>

PureInit ==
  /\ SInit
  /\ Migrated
  /\ CallersIdle
  /\ fnCall = NoFnCall
  /\ oauthStates = {}
  /\ config \in Configs
  /\ tokens \in LogoutStores \cup {<<>>}
  /\ users \in {<<>>, StoreUsers}

PureNext ==
  \/ Tick
  \/ ValidateReturnTo
  \/ IssueJwt
  \/ UpsertUser

SpecPure == PureInit /\ [][PureNext]_vars

\* ======================================== token and status handlers
\* req.query.workspaceId as Number() sees it: not a finite number
\* (missing, "abc", "Infinity"), or a decimal given here in tenths.
Query ==
  [finite : BOOLEAN, tenths : {-10, -5, 0, 5, 10, 17, 20}]

\* parseWorkspaceId(v): Math.trunc rounds toward zero; null is NullInt
parseWorkspaceId(v) ==
  IF ~v.finite THEN NullInt
  ELSE LET i == IF v.tenths >= 0 THEN v.tenths \div 10
                ELSE 0 - ((0 - v.tenths) \div 10) IN
       IF i <= 0 THEN NullInt ELSE i

\* GET /tokens/:service up to the first await of getValidAccessToken;
\* userId 0 stands for a request without req.auth.
TokenRequest(p) ==
  /\ CanStart(p)
  /\ ops < MaxOps
  /\ ops' = ops + 1
  /\ \E q \in Query, userId \in Users \cup {0}, svc \in {"drive", "bogus"},
        agentId \in {"agentA", "legacy", ""}, slug \in {"acme", ""},
        t \in {now, now + 1} :
       LET workspaceId == parseWorkspaceId(q)
           req == [NoCall EXCEPT !.userId = userId, !.agentId = agentId,
                                 !.service = svc, !.workspaceSlug = slug] IN
       IF \/ svc = "bogus" \/ ~Truthy(userId) \/ ~Truthy(workspaceId)
          \/ Falsy(slug) \/ Falsy(agentId)
       THEN /\ t = now
            /\ call' = [call EXCEPT ![p] = [req EXCEPT !.op = "getToken"]]
            /\ ret' = [ret EXCEPT ![p] =
                         [kind |-> "status",
                          val |-> IF svc # "bogus" /\ ~Truthy(userId)
                                  THEN "401 Unauthorized" ELSE "400 Bad Request"]]
            /\ pc' = [pc EXCEPT ![p] = "done"]
            /\ UNCHANGED <<snap, calls, now, ticks>>
       ELSE LET row == getTokenRow(tokens, userId, workspaceId, agentId, svc)
                d == gvDecision(row, t) IN
            /\ t # now => ticks < MaxTicks
            /\ now' = t
            /\ ticks' = IF t = now THEN ticks ELSE ticks + 1
            /\ call' = [call EXCEPT ![p] =
                          [req EXCEPT !.op = "getValidAccessToken",
                                      !.workspaceId = workspaceId, !.readAt = t,
                                      !.concurrent =
                                         InFlightFor(<<userId, workspaceId, agentId, svc>>)]]
            /\ snap' = [snap EXCEPT ![p] = row]
            /\ CASE d = "notConnected" ->
                      /\ ret' = [ret EXCEPT ![p] = Returned(NULL)]
                      /\ pc' = [pc EXCEPT ![p] = "done"]
                      /\ calls' = calls
                 [] d = "cacheHit" ->
                      /\ ret' = [ret EXCEPT ![p] = Returned(row.access_token)]
                      /\ pc' = [pc EXCEPT ![p] = "done"]
                      /\ calls' = calls
                 [] OTHER ->
                      /\ ret' = ret
                      /\ pc' = [pc EXCEPT ![p] = "refreshing"]
                      /\ calls' = [calls EXCEPT ![p] = calls[p] + 1]
  /\ UNCHANGED <<tokens, users, resp>>
  /\ UNCHANGED <<sessions, spc, sreq, sres, served, rotatedAway, storeCall>>
  /\ UNCHANGED <<mvars, fvars>>

StatusRequest_noWorkspaceCheck ==
  /\ fnCall.op = "none"
  /\ \E q \in Query, userId \in Users \cup {0}, slug \in {"acme", ""} :
       LET workspaceId == IF q.finite /\ q.tenths >= 0 THEN q.tenths \div 10
                          ELSE NullInt IN
       fnCall' = [op |-> "status", arg |-> <<userId, q, slug>>,
                  result |-> IF ~Truthy(userId)
                             THEN [status |-> 401, connections |-> <<>>]
                             ELSE IF workspaceId = NullInt \/ Falsy(slug)
                             THEN [status |-> 400, connections |-> <<>>]
                             ELSE [status |-> 200,
                                   connections |->
                                     listConnections(tokens, userId, workspaceId)]]
  /\ UNCHANGED <<config, oauthStates>>
  /\ UNCHANGED <<svars, tvars, mvars>>

\* GET /auth/status
StatusRequest ==
  /\ fnCall.op = "none"
  /\ \E q \in Query, userId \in Users \cup {0}, slug \in {"acme", ""} :
       LET workspaceId == parseWorkspaceId(q) IN
       fnCall' = [op |-> "status", arg |-> <<userId, q, slug>>,
                  result |-> IF ~Truthy(userId)
                             THEN [status |-> 401, connections |-> <<>>]
                             ELSE IF ~Truthy(workspaceId) \/ Falsy(slug)
                             THEN [status |-> 400, connections |-> <<>>]
                             ELSE [status |-> 200,
                                   connections |->
                                     listConnections(tokens, userId, workspaceId)]]
  /\ UNCHANGED <<config, oauthStates>>
  /\ UNCHANGED <<svars, tvars, mvars>>

HandlersNext ==
  \/ \E p \in Procs : TokenRequest(p)
  \/ \E p \in Procs : GvRefreshOk(p)
  \/ \E p \in Procs : GvRefreshFail(p)
  \/ StatusRequest
  \/ \E p \in Procs : DeleteAll(p)
  \/ \E p \in Procs : Return(p)

\* on a migrated store that holds legacy rows next to new ones
SpecHandlers == LogoutInit /\ [][HandlersNext]_vars

\* ======================================================== OAuth handlers
\* connect and callback of routes/oauth, on the store of the release they
\* were written for: exchangeCodeAndStoreTokens({userId, service, code,
\* redirectUri}) and a tokens table with UNIQUE(user_id, service).
\* A state value is base64url(JSON {token, userId, service, returnTo}); the
\* callback takes it from the query string, so a client may send any.
OAuthStates ==
  [token : RawTokens \cup {0},
   userId : Users \cup {0},
   service : {"drive", "bogus"},
   returnTo : {ReturnTo.devBlana, ReturnTo.relative}]

\* GET /auth/google/connect
Connect ==
  /\ ops < MaxOps
  /\ ops' = ops + 1
  /\ \E q \in OAuthStates :
       LET service == IF q.service \in {"drive", "calendar", "gmail", "youtube",
                                         "forms", "analytics"}
                      THEN q.service ELSE NULL
           returnTo == validateReturnTo(config, q.returnTo) IN
       IF service = NULL \/ q.userId <= 0 \/ returnTo = NullString
       THEN oauthStates' = oauthStates
       ELSE /\ q.token # 0
            /\ \A s \in oauthStates : s.token # q.token
            /\ oauthStates' = oauthStates \cup {q}
  /\ UNCHANGED <<config, fnCall>>
  /\ UNCHANGED <<tokens, users, pc, call, snap, resp, ret, calls, storeCall>>
  /\ UNCHANGED <<svars, mvars>>

\* GET /auth/google/callback: the whole handler, with the outcome of the
\* code exchange and of the profile fetch.
Callback ==
  /\ fnCall.op = "none"
  /\ \E state \in OAuthStates, hasCode \in BOOLEAN, fresh \in RawTokens,
        credentials \in Credentials(now), prof \in Profiles, exchanged \in BOOLEAN :
       LET service == IF state.service \in {"drive", "calendar", "gmail", "youtube",
                                             "forms", "analytics"}
                      THEN state.service ELSE NULL
           userId == state.userId
           returnTo == validateReturnTo(config, state.returnTo)
           email == IF prof.ok THEN Or(prof.email, NULL) ELSE NULL
           name == IF prof.ok THEN Or(prof.name, NULL) ELSE NULL
           picture == IF prof.ok THEN Or(prof.picture, NULL) ELSE NULL
           hit == {i \in 1 .. Len(tokens) :
                     tokens[i].user_id = userId /\ tokens[i].service = service}
           written(old) ==
             [user_id |-> userId, service |-> service,
              access_token |-> Or(credentials.access_token, NULL),
              refresh_token |-> IF Or(credentials.refresh_token, NULL) = NULL
                                THEN old ELSE credentials.refresh_token,
              expiry_date |-> credentials.expiry_date,
              scopes |-> Or(credentials.scope, getScopesForService(service))]
           stored == IF hit = {} THEN Append(tokens, written(NULL))
                     ELSE [i \in 1 .. Len(tokens) |->
                             IF i \in hit THEN written(tokens[i].refresh_token)
                             ELSE tokens[i]]
           newUsers == upsertUser(users, userId, email, name, picture)
           session == createRefreshSession(sessions, userId, fresh, now)
           failed == [op |-> "callback", arg |-> state,
                      result |-> [ok |-> FALSE, jwt |-> <<>>, refreshToken |-> 0]] IN
       IF \/ ~hasCode \/ service = NULL \/ userId <= 0 \/ returnTo = NullString
          \/ ~exchanged
          \/ upsertUserThrows(users, userId, email)
       THEN /\ fnCall' = failed
            /\ UNCHANGED <<tokens, users, sessions>>
       ELSE /\ users' = newUsers
            /\ tokens' = stored
            /\ sessions' = session.sessions
            /\ fnCall' = IF session.ret.kind = "throw" THEN failed
                         ELSE [op |-> "callback", arg |-> state,
                               result |-> [ok |-> TRUE,
                                           jwt |-> issueJwt(newUsers, userId, now),
                                           refreshToken |-> session.ret.refreshToken]]
  /\ UNCHANGED <<config, oauthStates>>
  /\ UNCHANGED <<pc, call, snap, resp, ret, calls, ops, storeCall>>
  /\ UNCHANGED <<now, ticks, spc, sreq, sres, served, rotatedAway>>
  /\ UNCHANGED mvars

CallbackInit ==
  /\ SInit
  /\ ProcInit
  /\ users = <<>>
  /\ tokens = <<>>
  /\ user_version = 0
  /\ tokensShape = "legacy"
  /\ legacy0 = <<>>
  /\ hasTokensNew = FALSE
  /\ tokens_new = <<>>
  /\ tokens_lookup = FALSE
  /\ boot = "listening"
  /\ mstep = "none"
  /\ boots = 1

CallbackNext ==
  \/ Connect
  \/ Callback

SpecCallback == CallbackInit /\ [][CallbackNext]_vars

\* ==================================================== schema migration
\* The database file outlives the process.  Every statement of a db.exec
\* script commits on its own (no BEGIN in the source), so the process may
\* die between any two of them and the next start finds what was committed.

\* Rows an old release left in the two-part-key tokens table.
LegacyKeys == {<<1, "drive">>, <<1, "calendar">>, <<2, "drive">>}

LegacyRows ==
  {[user_id |-> k[1], service |-> k[2], access_token |-> "at1",
    refresh_token |-> rt, expiry_date |-> Now0 + Skew + 1,
    scopes |-> getScopesForService(k[2])] :
   k \in LegacyKeys, rt \in {NULL, "rt1"}}

\* tables satisfying UNIQUE(user_id, service)
LegacyStores ==
  {T \in UNION {[1 .. n -> LegacyRows] : n \in 0 .. MaxLegacy} :
     \A i, j \in 1 .. Len(T) :
       (T[i].user_id = T[j].user_id /\ T[i].service = T[j].service) => i = j}

getUserVersion == user_version

hasTokensTable == tokensShape # "none"

\* SELECT user_id, 0, 'legacy', 'legacy', service, access_token,
\* refresh_token, expiry_date, scopes, NULL, updated_at FROM tokens
selectLegacy_dropsRefresh(row) ==
  [user_id |-> row.user_id, workspace_id |-> 0, workspace_slug |-> "legacy",
   agent_id |-> "legacy", service |-> row.service,
   access_token |-> row.access_token, refresh_token |-> NULL,
   expiry_date |-> row.expiry_date, scopes |-> row.scopes,
   connection_id |-> NULL]

selectLegacy(row) ==
  [user_id |-> row.user_id, workspace_id |-> 0, workspace_slug |-> "legacy",
   agent_id |-> "legacy", service |-> row.service,
   access_token |-> row.access_token, refresh_token |-> row.refresh_token,
   expiry_date |-> row.expiry_date, scopes |-> row.scopes,
   connection_id |-> NULL]

copyRows(T) == [i \in 1 .. Len(T) |-> selectLegacy(T[i])]

\* INSERT INTO tokens_new ... SELECT: UNIQUE(user_id, workspace_id,
\* agent_id, service) of tokens_new aborts the statement, which then
\* inserts nothing.
insertSelectThrows(dst, src) ==
  LET all == dst \o copyRows(src) IN
  \E i, j \in 1 .. Len(all) : i # j /\ KeyOf(all[i]) = KeyOf(all[j])

insertSelect(dst, src) == dst \o copyRows(src)

\* What request handlers write once the service listens.
ServeParams == {exWriteParams(FirstCall, c) : c \in Credentials(Now0)}

MigrateInit ==
  /\ SInit
  /\ ProcInit
  /\ users = <<>>
  /\ user_version = 0
  /\ \/ tokensShape = "none" /\ tokens = <<>>
     \/ tokensShape = "legacy" /\ tokens \in LegacyStores
  /\ legacy0 = tokens
  /\ hasTokensNew = FALSE
  /\ tokens_new = <<>>
  /\ tokens_lookup = FALSE
  /\ boot = "down"
  /\ mstep = "none"
  /\ boots = 0

\* node starts: the database module is loaded (users and sessions are
\* created IF NOT EXISTS) and migrateTokensToV1() is entered.
Start ==
  /\ boot \in {"down", "failed"}
  /\ boots < MaxBoots
  /\ boots' = boots + 1
  /\ boot' = "migrating"
  /\ mstep' = "check"
  /\ UNCHANGED <<user_version, tokensShape, hasTokensNew, tokens_new,
                 tokens_lookup, legacy0, tokens>>
  /\ UNCHANGED <<svars, tvarsButTokens, fvars>>

\* The process is killed (power loss, SIGKILL, OOM).
Crash ==
  /\ boot \in {"migrating", "listening"}
  /\ boot' = "down"
  /\ mstep' = "none"
  /\ UNCHANGED <<user_version, tokensShape, hasTokensNew, tokens_new,
                 tokens_lookup, boots, legacy0, tokens>>
  /\ UNCHANGED <<svars, tvarsButTokens, fvars>>

MigrateCheck_ignoresVersion ==
  /\ boot = "migrating"
  /\ mstep = "check"
  /\ mstep' = IF ~hasTokensTable THEN "create" ELSE "s1"
  /\ UNCHANGED <<user_version, tokensShape, hasTokensNew, tokens_new,
                 tokens_lookup, boot, boots, legacy0, tokens>>
  /\ UNCHANGED <<svars, tvarsButTokens, fvars>>

\* const current = getUserVersion(); if (current >= 1) return;
\* if (!hasTokensTable()) ...
MigrateCheck ==
  /\ boot = "migrating"
  /\ mstep = "check"
  /\ mstep' = IF getUserVersion >= 1 THEN "done"
              ELSE IF ~hasTokensTable THEN "create"
              ELSE "s1"
  /\ UNCHANGED <<user_version, tokensShape, hasTokensNew, tokens_new,
                 tokens_lookup, boot, boots, legacy0, tokens>>
  /\ UNCHANGED <<svars, tvarsButTokens, fvars>>

\* createTokensTableV1, first statement: CREATE TABLE IF NOT EXISTS tokens
CreateTokens ==
  /\ boot = "migrating"
  /\ mstep = "create"
  /\ tokensShape' = IF tokensShape = "none" THEN "v1" ELSE tokensShape
  /\ mstep' = "create_index"
  /\ UNCHANGED <<user_version, hasTokensNew, tokens_new, tokens_lookup, boot,
                 boots, legacy0, tokens>>
  /\ UNCHANGED <<svars, tvarsButTokens, fvars>>

\* CREATE INDEX IF NOT EXISTS tokens_lookup, in createTokensTableV1 and as
\* the last statement of the copy script
CreateIndex ==
  /\ boot = "migrating"
  /\ mstep \in {"create_index", "s5"}
  /\ tokens_lookup' = TRUE
  /\ mstep' = "set_version"
  /\ UNCHANGED <<user_version, tokensShape, hasTokensNew, tokens_new, boot,
                 boots, legacy0, tokens>>
  /\ UNCHANGED <<svars, tvarsButTokens, fvars>>

\* setUserVersion(1); return
SetUserVersion ==
  /\ boot = "migrating"
  /\ mstep = "set_version"
  /\ user_version' = 1
  /\ mstep' = "done"
  /\ UNCHANGED <<tokensShape, hasTokensNew, tokens_new, tokens_lookup, boot,
                 boots, legacy0, tokens>>
  /\ UNCHANGED <<svars, tvarsButTokens, fvars>>

\* CREATE TABLE IF NOT EXISTS tokens_new
CreateTokensNew ==
  /\ boot = "migrating"
  /\ mstep = "s1"
  /\ hasTokensNew' = TRUE
  /\ mstep' = "s2"
  /\ UNCHANGED <<user_version, tokensShape, tokens_new, tokens_lookup, boot,
                 boots, legacy0, tokens>>
  /\ UNCHANGED <<svars, tvarsButTokens, fvars>>

\* INSERT INTO tokens_new ... SELECT ... FROM tokens
CopyTokens ==
  /\ boot = "migrating"
  /\ mstep = "s2"
  /\ ~insertSelectThrows(tokens_new, tokens)
  /\ tokens_new' = insertSelect(tokens_new, tokens)
  /\ mstep' = "s3"
  /\ UNCHANGED <<user_version, tokensShape, hasTokensNew, tokens_lookup, boot,
                 boots, legacy0, tokens>>
  /\ UNCHANGED <<svars, tvarsButTokens, fvars>>

\* The INSERT throws: db.exec stops, the exception leaves the module body
\* and node exits.
CopyTokensThrows ==
  /\ boot = "migrating"
  /\ mstep = "s2"
  /\ insertSelectThrows(tokens_new, tokens)
  /\ boot' = "failed"
  /\ mstep' = "none"
  /\ UNCHANGED <<user_version, tokensShape, hasTokensNew, tokens_new,
                 tokens_lookup, boots, legacy0, tokens>>
  /\ UNCHANGED <<svars, tvarsButTokens, fvars>>

\* DROP TABLE tokens (its indexes go with it)
DropTokens ==
  /\ boot = "migrating"
  /\ mstep = "s3"
  /\ tokensShape' = "none"
  /\ tokens' = <<>>
  /\ tokens_lookup' = FALSE
  /\ mstep' = "s4"
  /\ UNCHANGED <<user_version, hasTokensNew, tokens_new, boot, boots, legacy0>>
  /\ UNCHANGED <<svars, tvarsButTokens, fvars>>

\* ALTER TABLE tokens_new RENAME TO tokens
RenameTokensNew ==
  /\ boot = "migrating"
  /\ mstep = "s4"
  /\ tokensShape' = "v1"
  /\ tokens' = tokens_new
  /\ hasTokensNew' = FALSE
  /\ tokens_new' = <<>>
  /\ mstep' = "s5"
  /\ UNCHANGED <<user_version, tokens_lookup, boot, boots, legacy0>>
  /\ UNCHANGED <<svars, tvarsButTokens, fvars>>

Listen_withoutMigration ==
  /\ boot = "migrating"
  /\ boot' = "listening"
  /\ UNCHANGED <<user_version, tokensShape, hasTokensNew, tokens_new,
                 tokens_lookup, mstep, boots, legacy0, tokens>>
  /\ UNCHANGED <<svars, tvarsButTokens, fvars>>

\* The imports of index.ts have been evaluated, migrateTokensToV1() has
\* returned: app.listen(config.port).
Listen ==
  /\ boot = "migrating"
  /\ mstep = "done"
  /\ boot' = "listening"
  /\ UNCHANGED <<user_version, tokensShape, hasTokensNew, tokens_new,
                 tokens_lookup, mstep, boots, legacy0, tokens>>
  /\ UNCHANGED <<svars, tvarsButTokens, fvars>>

\* A request handler writes a connection for a real workspace.
Serve ==
  /\ boot = "listening"
  /\ \E params \in ServeParams : tokens' = upsertTokens(tokens, params)
  /\ UNCHANGED <<user_version, tokensShape, hasTokensNew, tokens_new,
                 tokens_lookup, boot, mstep, boots, legacy0>>
  /\ UNCHANGED <<svars, tvarsButTokens, fvars>>

MigrateNext ==
  \/ Start
  \/ Crash
  \/ MigrateCheck
  \/ CreateTokens
  \/ CreateIndex
  \/ SetUserVersion
  \/ CreateTokensNew
  \/ CopyTokens
  \/ CopyTokensThrows
  \/ DropTokens
  \/ RenameTokensNew
  \/ Listen
  \/ Serve

SpecMigrate == MigrateInit /\ [][MigrateNext]_vars

\* ------------------------------------------------------------- claims
\* C1: of two rotation requests presenting the same raw token, in any
\* interleaving, at most one returns a new token and then the other one
\* returns null.
C1_AtMostOneRotationSucceeds ==
  \A r, q \in Slots :
    (/\ r # q
     /\ spc[r] = "done" /\ spc[q] = "done"
     /\ sreq[r].op = "rotateRefreshSession" /\ sreq[q].op = "rotateRefreshSession"
     /\ sreq[r].tok = sreq[q].tok
     /\ sres[r].kind = "ok")
    => sres[q].kind = "null"

C1_Witness ==
  \E r, q \in Slots :
    /\ r # q
    /\ spc[r] = "done" /\ spc[q] = "done"
    /\ sreq[r].op = "rotateRefreshSession" /\ sreq[q].op = "rotateRefreshSession"
    /\ sreq[r].tok = sreq[q].tok
    /\ sreq[r].overlap \/ sreq[q].overlap
    /\ sres[r].kind = "ok" /\ sres[q].kind = "null"

\* C2: a successful rotation of t returns a raw token other than t, and
\* every rotation of t after that returns null, whatever happened between.
C2_RotatedTokenNeverRotatesAgain ==
  [][\A r \in Slots :
       (spc[r] = "arrived" /\ spc'[r] = "done" /\ sreq[r].op = "rotateRefreshSession")
       => /\ sres'[r].kind = "ok" => sres'[r].refreshToken # sreq[r].tok
          /\ sreq[r].tok \in rotatedAway => sres'[r].kind = "null"]_vars

C2_Witness ==
  \E r \in Slots :
    /\ spc[r] = "done"
    /\ sreq[r].op = "rotateRefreshSession"
    /\ sreq[r].tok \in rotatedAway
    /\ sres[r].kind = "null"
    /\ Len(sessions) >= 3

\* ---------------------------------------------------- claims on the store
CallKey(c) == <<c.userId, c.workspaceId, c.agentId, c.service>>
RowFor(T, c) == getTokenRow(T, c.userId, c.workspaceId, c.agentId, c.service)
RowsFor(T, k) == {i \in 1 .. Len(T) : KeyOf(T[i]) = k}
IsGv(p) == call[p].op = "getValidAccessToken"
\* p's refresh has just been answered successfully / with an error
GvOkStep(p) == pc[p] = "refreshing" /\ pc'[p] = "done" /\ resp'[p].kind = "ok"
GvFailStep(p) == pc[p] = "refreshing" /\ pc'[p] = "done" /\ resp'[p].kind = "error"
\* p enters getValidAccessToken in this step
GvEnterStep(p) == pc[p] = "idle" /\ call'[p].op = "getValidAccessToken"

\* C3: in every reachable state at most one row exists per tuple
\* (userId, workspaceId, agentId, service).
C3_OneRowPerTuple ==
  \A i, j \in 1 .. Len(tokens) :
    KeyOf(tokens[i]) = KeyOf(tokens[j]) => i = j

C3_Witness ==
  \E p \in Procs :
    /\ pc[p] = "done" /\ IsGv(p) /\ resp[p].kind = "ok"
    /\ snap[p] # NoRow
    /\ Len(tokens) = 2

\* C4: for every tuple and every prior table, upsertTokens followed by
\* getTokenRow gives back the written accessToken, expiryDate, scopes,
\* workspaceSlug and connectionId, and as refreshToken the written one if
\* it is not null, else the one stored for the tuple before the write.
C4_UpsertThenGet ==
  storeCall.op = "upsertTokens" =>
    LET ps == storeCall.params
        got == getTokenRow(tokens, ps.userId, ps.workspaceId, ps.agentId, ps.service)
        old == getTokenRow(storeCall.before, ps.userId, ps.workspaceId,
                           ps.agentId, ps.service) IN
    /\ got # NoRow
    /\ got.access_token = ps.accessToken
    /\ got.expiry_date = ps.expiryDate
    /\ got.scopes = ps.scopes
    /\ got.workspace_slug = ps.workspaceSlug
    /\ got.connection_id = ps.connectionId
    /\ got.refresh_token = (IF ps.refreshToken # NULL THEN ps.refreshToken
                                                      ELSE old.refresh_token)

C4_Witness ==
  /\ storeCall.op = "upsertTokens"
  /\ storeCall.params.refreshToken = NULL
  /\ Len(storeCall.before) = 2
  /\ LET ps == storeCall.params IN
     /\ getTokenRow(storeCall.before, ps.userId, ps.workspaceId, ps.agentId,
                    ps.service).refresh_token = "rt1"
     /\ getTokenRow(tokens, ps.userId, ps.workspaceId, ps.agentId,
                    ps.service).refresh_token = "rt1"
     /\ getTokenRow(tokens, ps.userId, ps.workspaceId, ps.agentId,
                    ps.service).access_token = "at2"

\* C5: with a refresh token, an access token and a recorded expiry strictly
\* beyond now + skew, getValidAccessToken returns the stored access token,
\* calls the provider not at all and leaves the store as it is.
C5_CacheHit ==
  [][\A p \in Procs :
       LET row == RowFor(tokens, call'[p]) IN
       (/\ GvEnterStep(p)
        /\ ~Falsy(row.refresh_token)
        /\ ~Falsy(row.access_token)
        /\ row.expiry_date # NullInt
        /\ row.expiry_date > call'[p].readAt + Skew)
       => /\ pc'[p] = "done"
          /\ ret'[p] = Returned(row.access_token)
          /\ calls'[p] = 0
          /\ tokens' = tokens
          /\ users' = users]_vars

C5_Witness ==
  \E p \in Procs :
    /\ pc[p] = "done" /\ IsGv(p)
    /\ calls[p] = 0
    /\ ret[p].kind = "value" /\ ret[p].val \in AccessTokens
    /\ snap[p].expiry_date = call[p].readAt + Skew + 1

\* C6: with a refresh token and an expiry that is absent, zero or at most
\* now + skew (the boundary included), getValidAccessToken calls the
\* provider exactly once; when that call succeeds the result is in the
\* store when the refreshed access token is returned.
C6_StaleRefreshesOnce ==
  [][\A p \in Procs :
       LET row == RowFor(tokens, call'[p])
           after == RowFor(tokens', call[p]) IN
       /\ (/\ GvEnterStep(p)
           /\ ~Falsy(row.refresh_token)
           /\ \/ row.expiry_date = NullInt
              \/ row.expiry_date = 0
              \/ row.expiry_date <= call'[p].readAt + Skew)
          => /\ pc'[p] = "refreshing"
             /\ calls'[p] = 1
       /\ (pc[p] = "refreshing" /\ pc'[p] # "refreshing")
          => /\ pc'[p] = "done"
             /\ calls'[p] = 1
       /\ GvOkStep(p)
          => /\ after # NoRow
             /\ ret'[p] = Returned(after.access_token)
             /\ after.access_token =
                  Or(resp'[p].credentials.access_token, snap[p].access_token)]_vars

C6_Witness ==
  \E p \in Procs :
    /\ pc[p] = "done" /\ IsGv(p) /\ resp[p].kind = "ok"
    /\ snap[p].expiry_date = call[p].readAt + Skew
    /\ ~Falsy(snap[p].access_token)
    /\ calls[p] = 1
    /\ ret[p].val \in AccessTokens /\ ret[p].val # snap[p].access_token

\* C7: when the provider refresh fails, getValidAccessToken throws that
\* same failure, makes no second provider call, does not return the cached
\* access token and writes nothing to the store.
C7_RefreshFailurePropagates ==
  [][\A p \in Procs :
       /\ GvFailStep(p)
          => /\ ret'[p] = Thrown(resp'[p].err)
             /\ calls'[p] = 1
             /\ tokens' = tokens
       /\ (GvEnterStep(p) /\ pc'[p] = "refreshing") => tokens' = tokens]_vars

C7_Witness ==
  \E p \in Procs :
    /\ pc[p] = "done" /\ IsGv(p)
    /\ resp[p].kind = "error"
    /\ ret[p] = Thrown(resp[p].err)
    /\ ~Falsy(snap[p].access_token)
    /\ RowFor(tokens, call[p]) = snap[p]

\* C8: after a successful refresh the row holds the provider's access
\* token, or the one the call had read if the provider omitted it; the
\* provider's refresh token if supplied, otherwise the one stored until
\* then; the provider's expiry (the one read, if the provider gave none);
\* the scopes (the provider's, else the ones read); and the call returns
\* the access token now stored.
C8_WriteBack ==
  [][\A p \in Procs :
       LET before == RowFor(tokens, call[p])
           after == RowFor(tokens', call[p])
           cr == resp'[p].credentials IN
       GvOkStep(p)
       => /\ after.access_token =
               (IF Falsy(cr.access_token) THEN snap[p].access_token
                                          ELSE cr.access_token)
          /\ after.refresh_token =
               (IF Falsy(cr.refresh_token) THEN before.refresh_token
                                           ELSE cr.refresh_token)
          /\ after.expiry_date =
               (IF cr.expiry_date = NullInt THEN snap[p].expiry_date
                                            ELSE cr.expiry_date)
          /\ after.scopes =
               (IF Falsy(cr.scope) THEN snap[p].scopes ELSE cr.scope)
          /\ ret'[p] = Returned(after.access_token)]_vars

C8_Witness ==
  \E p \in Procs :
    /\ pc[p] = "done" /\ IsGv(p) /\ resp[p].kind = "ok"
    /\ resp[p].credentials.access_token = NULL
    /\ resp[p].credentials.refresh_token = NULL
    /\ RowFor(tokens, call[p]).access_token = snap[p].access_token
    /\ RowFor(tokens, call[p]).refresh_token \in RefreshTokens
    /\ ret[p].val \in AccessTokens

\* C9: a refresh write-back never changes connectionId or workspaceSlug of
\* the row: what is stored just before the write-back is stored after it,
\* also when a new authorization of the same tuple completed while the
\* provider call was in flight.
C9_RefreshKeepsMetadata ==
  [][\A p \in Procs :
       LET before == RowFor(tokens, call[p])
           after == RowFor(tokens', call[p]) IN
       (GvOkStep(p) /\ before # NoRow)
       => /\ after.connection_id = before.connection_id
          /\ after.workspace_slug = before.workspace_slug]_vars

\* C10: two concurrent getValidAccessToken calls on one stale connection
\* both call the provider and both write back; when the second write-back
\* is done the row holds the access token and expiry written by it, the
\* tuple has exactly one row and its refresh token is not null.
C10_LastWriterWins ==
  [][\A p, q \in Procs :
       LET after == RowFor(tokens', call[p])
           cr == resp'[p].credentials IN
       (/\ p # q
        /\ GvOkStep(p)
        /\ pc[q] = "done" /\ IsGv(q) /\ resp[q].kind = "ok"
        /\ CallKey(call[q]) = CallKey(call[p])
        /\ call[p].concurrent \/ call[q].concurrent)
       => /\ after.access_token = Or(cr.access_token, snap[p].access_token)
          /\ after.expiry_date =
               (IF cr.expiry_date = NullInt THEN snap[p].expiry_date
                                            ELSE cr.expiry_date)
          /\ Cardinality(RowsFor(tokens', CallKey(call[p]))) = 1
          /\ ~Falsy(after.refresh_token)]_vars

C10_Witness ==
  \E p, q \in Procs :
    /\ p # q
    /\ pc[p] = "done" /\ IsGv(p) /\ resp[p].kind = "ok" /\ calls[p] = 1
    /\ pc[q] = "done" /\ IsGv(q) /\ resp[q].kind = "ok" /\ calls[q] = 1
    /\ CallKey(call[q]) = CallKey(call[p])
    /\ call[q].concurrent
    /\ snap[p] = snap[q]
    /\ resp[p].credentials.access_token = "at1"
    /\ resp[q].credentials.access_token = "at2"
    /\ Cardinality(RowsFor(tokens, CallKey(call[p]))) = 1
    /\ RowFor(tokens, call[p]).access_token \in AccessTokens
    /\ ~Falsy(RowFor(tokens, call[p]).refresh_token)


\* C11: refreshes are serialized per connection: at any moment at most one
\* provider refresh call is in flight for a tuple (userId, workspaceId,
\* agentId, service).
C11_RefreshesSerialized ==
  \A p, q \in Procs :
    (/\ pc[p] = "refreshing" /\ pc[q] = "refreshing"
     /\ CallKey(call[p]) = CallKey(call[q]))
    => p = q

\* ------------------------------------------------ claims on the migration
\* C12: whatever statement of migrateTokensToV1 the process dies after, the
\* database it leaves never has user_version = 1 with the tokens table
\* missing or two-part keyed, and never has the four-part tokens table with
\* user_version still 0.
C12_MigrationFailureAtomic ==
  boot = "down"
  => /\ ~(user_version = 1 /\ tokensShape # "v1")
     /\ ~(tokensShape = "v1" /\ user_version = 0)

\* C13: across crashes and restarts no grant is lost: no start of the
\* process fails in the migration, and once user_version = 1 the tokens
\* table has a row for every row of the legacy table.
C13_NoGrantLost ==
  /\ boot # "failed"
  /\ user_version = 1
     => \A i \in 1 .. Len(legacy0) :
          \E j \in 1 .. Len(tokens) :
            KeyOf(tokens[j]) = <<legacy0[i].user_id, 0, "legacy", legacy0[i].service>>

\* C14: an uninterrupted migrateTokensToV1 of a legacy table with N rows
\* leaves N rows, each with workspace_id 0, workspace_slug 'legacy',
\* agent_id 'legacy', connection_id NULL and the other columns unchanged,
\* and no two rows share (user_id, workspace_id, agent_id, service).
C14_MigrationCopiesRows ==
  (boots = 1 /\ boot = "migrating" /\ mstep = "done")
  => /\ tokensShape = "v1"
     /\ user_version = 1
     /\ Len(tokens) = Len(legacy0)
     /\ \A i \in 1 .. Len(legacy0) :
          tokens[i] =
            [user_id |-> legacy0[i].user_id, workspace_id |-> 0,
             workspace_slug |-> "legacy", agent_id |-> "legacy",
             service |-> legacy0[i].service,
             access_token |-> legacy0[i].access_token,
             refresh_token |-> legacy0[i].refresh_token,
             expiry_date |-> legacy0[i].expiry_date,
             scopes |-> legacy0[i].scopes, connection_id |-> NULL]
     /\ \A i, j \in 1 .. Len(tokens) : KeyOf(tokens[i]) = KeyOf(tokens[j]) => i = j

C14_Witness ==
  /\ boots = 1 /\ boot = "migrating" /\ mstep = "done"
  /\ Len(legacy0) = 2
  /\ Len(tokens) = 2
  /\ tokens[1].workspace_slug = "legacy"
  /\ tokens[2].refresh_token = "rt1"

\* C15: with user_version already at 1 or above, a run of
\* migrateTokensToV1 changes neither the tokens table (shape, rows, rows of
\* real workspaces included) nor any other table nor the version.
C15_MigrationIdempotent ==
  [][(boot = "migrating" /\ user_version >= 1)
     => /\ tokens' = tokens
        /\ tokensShape' = tokensShape
        /\ hasTokensNew' = hasTokensNew
        /\ tokens_new' = tokens_new
        /\ user_version' = user_version]_vars

C15_Witness ==
  /\ boots >= 2 /\ boot = "migrating" /\ mstep = "done"
  /\ Len(legacy0) > 0
  /\ \E j \in 1 .. Len(tokens) : tokens[j].workspace_id = 1
  /\ \E j \in 1 .. Len(tokens) : tokens[j].workspace_id = 0

\* C16: requests are served only after the migration: whenever the process
\* listens the schema is at version 1 with the four-part tokens table, and
\* a process whose migration failed never listens.
C16_MigrationBeforeServing ==
  /\ [](boot = "listening" => (user_version >= 1 /\ tokensShape = "v1"))
  /\ [][boot = "failed" => boot' # "listening"]_vars

C16_Witness ==
  /\ boot = "listening"
  /\ Len(legacy0) > 0
  /\ \E j \in 1 .. Len(tokens) : tokens[j].workspace_id = 1
  /\ \E j \in 1 .. Len(tokens) : tokens[j].workspace_id = 0


\* ------------------------------------------ claims on the session manager
\* a rotateRefreshSession / revokeRefreshSession call runs in this step
RotStep(r) ==
  spc[r] = "arrived" /\ spc'[r] = "done" /\ sreq[r].op = "rotateRefreshSession"
RevStep(r) ==
  spc[r] = "arrived" /\ spc'[r] = "done" /\ sreq[r].op = "revokeRefreshSession"
\* id of the session the request's token belongs to (0: none)
Presented(r) == findSessionByRefreshHash(sessions, sha256Hex(sreq[r].tok))

\* C17: lookup, revoke and create of a rotation are one atomic unit: a
\* rotation never revokes the presented session without having created a
\* successor session of the same user, also when the insert fails.
C17_RotationAtomic ==
  [][\A r \in Slots :
       LET id == Presented(r) IN
       (/\ RotStep(r)
        /\ id # 0
        /\ ~Truthy(sessions[id].revoked_at)
        /\ Truthy(sessions'[id].revoked_at))
       => /\ Len(sessions') = Len(sessions) + 1
          /\ sessions'[Len(sessions')].user_id = sessions[id].user_id
          /\ ~Truthy(sessions'[Len(sessions')].revoked_at)]_vars

\* C18: rotateRefreshSession(t) returns null exactly when no session has
\* hash(t), or the session is revoked already, or its expires_at <= now;
\* and then no session row changes.
C18_RotateNullCases ==
  [][\A r \in Slots :
       LET id == Presented(r) IN
       RotStep(r)
       => /\ sres'[r].kind = "null"
             <=> \/ id = 0
                 \/ Truthy(sessions[id].revoked_at)
                 \/ sessions[id].expires_at <= now
          /\ sres'[r].kind = "null" => sessions' = sessions]_vars

C18_Witness ==
  \E r \in Slots :
    LET id == Presented(r) IN
    /\ spc[r] = "done"
    /\ sreq[r].op = "rotateRefreshSession"
    /\ sres[r].kind = "null"
    /\ id # 0
    /\ ~Truthy(sessions[id].revoked_at)
    /\ sessions[id].expires_at = now

\* C19 as stated: a successful rotation sets revoked_at and last_used_at of
\* the presented session to now and adds exactly one non-revoked session of
\* the same user with expires_at = now + 30 days (the same now), stored
\* under the hash of the returned raw token; no other row changes.
C19_RotateSuccess_SameNow ==
  [][\A r \in Slots :
       LET id == Presented(r)
           n == Len(sessions') IN
       (RotStep(r) /\ sres'[r].kind = "ok")
       => /\ sessions'[id] = [sessions[id] EXCEPT !.revoked_at = now,
                                                  !.last_used_at = now]
          /\ n = Len(sessions) + 1
          /\ sessions'[n] = [user_id |-> sessions[id].user_id,
                             refresh_token_hash |-> sha256Hex(sres'[r].refreshToken),
                             expires_at |-> now + SessionTtl,
                             revoked_at |-> NullInt, last_used_at |-> NullInt]
          /\ \A i \in 1 .. Len(sessions) : i # id => sessions'[i] = sessions[i]]_vars

\* C19, amended: a successful rotation sets revoked_at and last_used_at of
\* the presented session to now and adds exactly one non-revoked session of
\* the same user, stored under the hash of the returned raw token, whose
\* expires_at is the returned expiry and equals the time of its creation
\* plus 30 days, a time at or after now; no other row changes.
C19_RotateSuccess ==
  [][\A r \in Slots :
       LET id == Presented(r)
           n == Len(sessions') IN
       (RotStep(r) /\ sres'[r].kind = "ok")
       => /\ sessions'[id] = [sessions[id] EXCEPT !.revoked_at = now,
                                                  !.last_used_at = now]
          /\ n = Len(sessions) + 1
          /\ now' >= now
          /\ sres'[r].expiresAt = now' + SessionTtl
          /\ sres'[r].userId = sessions[id].user_id
          /\ sessions'[n] = [user_id |-> sessions[id].user_id,
                             refresh_token_hash |-> sha256Hex(sres'[r].refreshToken),
                             expires_at |-> now' + SessionTtl,
                             revoked_at |-> NullInt, last_used_at |-> NullInt]
          /\ \A i \in 1 .. Len(sessions) : i # id => sessions'[i] = sessions[i]]_vars

C19_Witness ==
  \E r \in Slots :
    LET id == Presented(r) IN
    /\ spc[r] = "done"
    /\ sreq[r].op = "rotateRefreshSession"
    /\ sres[r].kind = "ok"
    /\ id # 0
    /\ Len(sessions) >= 2
    /\ sessions[id].revoked_at = sessions[id].last_used_at
    /\ sessions[Len(sessions)].refresh_token_hash = sha256Hex(sres[r].refreshToken)
    /\ sessions[Len(sessions)].expires_at = sessions[id].revoked_at + 1 + SessionTtl

\* C20: revokeRefreshSession(t) returns false exactly when no session has
\* hash(t), and then changes nothing; it returns true and changes nothing
\* when the session is revoked already; otherwise it sets revoked_at to now
\* and returns true.  A revoked session stays revoked, so every later
\* rotateRefreshSession(t) returns null.
C20_RevokeCases ==
  /\ [][\A r \in Slots :
          LET id == Presented(r) IN
          RevStep(r)
          => /\ sres'[r].kind = "false" <=> id = 0
             /\ sres'[r].kind \in {"false", "true"}
             /\ id = 0 => sessions' = sessions
             /\ (id # 0 /\ Truthy(sessions[id].revoked_at)) => sessions' = sessions
             /\ (id # 0 /\ ~Truthy(sessions[id].revoked_at))
                => /\ sessions'[id].revoked_at = now
                   /\ \A i \in 1 .. Len(sessions) : i # id => sessions'[i] = sessions[i]
                   /\ Len(sessions') = Len(sessions)
                   /\ \A fresh \in RawTokens, t \in {now, now + 1, now + SessionTtl} :
                        rotateRefreshSession(sessions', sreq[r].tok, fresh, t, t).ret.kind = "null"]_vars
  /\ [][\A i \in 1 .. Len(sessions) :
          Truthy(sessions[i].revoked_at)
          => /\ i <= Len(sessions')
             /\ sessions'[i].revoked_at = sessions[i].revoked_at
             /\ sessions'[i].refresh_token_hash = sessions[i].refresh_token_hash]_vars
  /\ [][\A r \in Slots :
          (RotStep(r) /\ Presented(r) # 0 /\ Truthy(sessions[Presented(r)].revoked_at))
          => sres'[r].kind = "null"]_vars

C20_Witness ==
  \E r, q \in Slots :
    /\ spc[r] = "done" /\ sreq[r].op = "revokeRefreshSession"
    /\ sres[r].kind = "true"
    /\ spc[q] = "done" /\ sreq[q].op = "rotateRefreshSession"
    /\ sreq[q].tok = sreq[r].tok
    /\ sres[q].kind = "null"
    /\ Presented(r) # 0
    /\ sessions[Presented(r)].revoked_at = now
    /\ sessions[Presented(r)].expires_at > now


\* a session-manager call of slot r runs in this step
SessionStep(r) == spc[r] = "arrived" /\ spc'[r] = "done"

\* C21: no session row stores a raw token: refresh_token_hash always holds
\* the hash of an issued token; a call touches an existing row only if the
\* row's hash equals the hash of the presented token; and a call returns
\* no raw token except the one it has just generated and stored the hash
\* of.
C21_OnlyHashesStored ==
  /\ [](\A i \in 1 .. Len(sessions) :
          sessions[i].refresh_token_hash \in {sha256Hex(x) : x \in RawTokens})
  /\ [][\A r \in Slots :
          SessionStep(r)
          => /\ \A i \in 1 .. Len(sessions) :
                  sessions'[i] # sessions[i]
                  => sessions[i].refresh_token_hash = sha256Hex(sreq[r].tok)
             /\ sres'[r].kind = "ok"
                => /\ Len(sessions') = Len(sessions) + 1
                   /\ sessions'[Len(sessions')].refresh_token_hash
                        = sha256Hex(sres'[r].refreshToken)
                   /\ \A i \in 1 .. Len(sessions) :
                        sessions[i].refresh_token_hash # sha256Hex(sres'[r].refreshToken)
             /\ sres'[r].kind # "ok" => sres'[r].refreshToken = 0]_vars

C21_Witness ==
  \E r, q \in Slots :
    /\ spc[r] = "done" /\ sreq[r].op = "createRefreshSession" /\ sres[r].kind = "ok"
    /\ spc[q] = "done" /\ sreq[q].op = "rotateRefreshSession" /\ sres[q].kind = "ok"
    /\ sres[q].refreshToken # sres[r].refreshToken
    /\ Len(sessions) >= 2

\* C22: no two session rows share a refresh_token_hash; hence at most one
\* non-revoked, non-expired session exists per hash.
C22_HashesUnique ==
  /\ \A i, j \in 1 .. Len(sessions) :
       sessions[i].refresh_token_hash = sessions[j].refresh_token_hash => i = j
  /\ \A x \in RawTokens :
       Cardinality({i \in 1 .. Len(sessions) :
                      /\ sessions[i].refresh_token_hash = sha256Hex(x)
                      /\ ~Truthy(sessions[i].revoked_at)
                      /\ sessions[i].expires_at > now}) <= 1

C22_Witness ==
  /\ Len(sessions) >= 2
  /\ \E r \in Slots :
       /\ spc[r] = "done"
       /\ sreq[r].op = "createRefreshSession"
       /\ sres[r].kind = "throw"


\* C23: a logout that presents a token for which a session exists deletes
\* every connection of the user owning that session, in every workspace,
\* for every agent and service.
C23_LogoutDeletesConnections ==
  [][\A r \in Slots :
       (RevStep(r) /\ Presented(r) # 0)
       => \A i \in 1 .. Len(tokens') :
            tokens'[i].user_id # sessions[Presented(r)].user_id]_vars


\* C24: deleteAllTokensForUser(u) removes every row of user u, whatever
\* its workspace, agent or service, and leaves the rows of every other
\* user, the users table and the sessions table unchanged.
C24_DeleteAllFrame ==
  [][(storeCall.op = "none" /\ storeCall'.op = "deleteAllTokensForUser")
     => LET u == storeCall'.params.userId
            kept == {i \in 1 .. Len(tokens) : tokens[i].user_id # u} IN
        /\ \A i \in 1 .. Len(tokens') : tokens'[i].user_id # u
        /\ Len(tokens') = Cardinality(kept)
        /\ \A i \in kept : \E j \in 1 .. Len(tokens') : tokens'[j] = tokens[i]
        /\ users' = users
        /\ sessions' = sessions]_vars

C24_Witness ==
  /\ storeCall.op = "deleteAllTokensForUser"
  /\ storeCall.params.userId = 1
  /\ Len(storeCall.before) = 2
  /\ storeCall.before[1].user_id = 1 /\ storeCall.before[1].workspace_id = 0
  /\ storeCall.before[2].user_id = 2
  /\ tokens = <<storeCall.before[2]>>

\* C25: listConnections(u, w) returns exactly the distinct (agentId,
\* service) pairs of the rows with userId u, workspaceId w and a refresh
\* token that is neither null nor empty, in ascending order of agentId and
\* then service; the store is left as it is.
C25_ListConnections ==
  [][(fnCall.op = "none" /\ fnCall'.op = "listConnections")
     => LET u == fnCall'.arg[1]
            w == fnCall'.arg[2]
            r == fnCall'.result
            hits == {i \in 1 .. Len(tokens) :
                       /\ tokens[i].user_id = u
                       /\ tokens[i].workspace_id = w
                       /\ ~Falsy(tokens[i].refresh_token)} IN
        /\ {<<r[i].agent_id, r[i].service>> : i \in 1 .. Len(r)}
             = {<<tokens[i].agent_id, tokens[i].service>> : i \in hits}
        /\ \A i, j \in 1 .. Len(r) :
             i < j => \/ StrLess(r[i].agent_id, r[j].agent_id)
                      \/ /\ r[i].agent_id = r[j].agent_id
                         /\ StrLess(r[i].service, r[j].service)
        /\ tokens' = tokens]_vars

C25_Witness ==
  /\ fnCall.op = "listConnections"
  /\ fnCall.arg = <<1, 1>>
  /\ Len(tokens) = 2
  /\ tokens[1].agent_id = "agentB" /\ tokens[1].service = "calendar"
  /\ tokens[2].agent_id = "agentA" /\ tokens[2].service = "drive"
  /\ fnCall.result = <<[agent_id |-> "agentA", service |-> "drive"],
                       [agent_id |-> "agentB", service |-> "calendar"]>>

\* C26: when getValidAccessToken finds no row for the requested tuple, or a
\* row whose refresh token is null or empty, it returns null at once: no
\* provider call is made and the store is not written.
C26_NotConnected ==
  [][\A p \in Procs :
       (/\ GvEnterStep(p)
        /\ \/ RowFor(tokens, call'[p]) = NoRow
           \/ Falsy(RowFor(tokens, call'[p]).refresh_token))
       => /\ pc'[p] = "done"
          /\ ret'[p] = Returned(NULL)
          /\ calls'[p] = calls[p]
          /\ resp'[p] = NoResp
          /\ tokens' = tokens
          /\ users' = users]_vars

C26_Witness ==
  \E p \in Procs :
    /\ IsGv(p)
    /\ pc[p] = "done"
    /\ snap[p] # NoRow
    /\ Falsy(snap[p].refresh_token)
    /\ ~Falsy(snap[p].access_token)
    /\ ret[p] = Returned(NULL)
    /\ calls[p] = 0

\* C27: calls of getValidAccessToken on different tuples do not interfere.
\* A call on tuple k reads the row of k only, every step of it leaves the
\* rows of all other tuples as they were, and, the row of k being as the
\* call read it, the row it writes is the one it would write on a store
\* holding that row alone.
C27_DistinctTuplesIndependent ==
  [][\A p \in Procs :
       /\ GvEnterStep(p) => snap'[p] = RowFor(tokens, call'[p])
       /\ (GvEnterStep(p) \/ (IsGv(p) /\ pc[p] = "refreshing" /\ pc'[p] = "done"))
          => LET k == IF GvEnterStep(p) THEN CallKey(call'[p]) ELSE CallKey(call[p]) IN
             {tokens'[i] : i \in {j \in 1 .. Len(tokens') : KeyOf(tokens'[j]) # k}}
               = {tokens[i] : i \in {j \in 1 .. Len(tokens) : KeyOf(tokens[j]) # k}}
       /\ (IsGv(p) /\ GvOkStep(p) /\ RowFor(tokens, call[p]) = snap[p])
          => RowFor(tokens', call[p])
               = RowFor(upsertTokens(<<snap[p]>>,
                                     gvWriteBack(call[p], snap[p], resp'[p].credentials)),
                        call[p])]_vars

\* a refresh of one connection ran from start to end while the refresh of
\* the other one was waiting for the provider
C27_Witness ==
  /\ IsGv("p1") /\ pc["p1"] = "refreshing"
  /\ IsGv("p2") /\ pc["p2"] = "done" /\ resp["p2"].kind = "ok"
  /\ CallKey(call["p1"]) # CallKey(call["p2"])
  /\ RowFor(tokens, call["p1"]) = snap["p1"]
  /\ RowFor(tokens, call["p2"]) # snap["p2"]

ValidateStep == fnCall.op = "none" /\ fnCall'.op = "validateReturnTo"
\* the host name of candidate c is one label followed by "." and the suffix
OneLabelUnder(c, suffix) ==
  LET h == toLowerCase(c.host) IN
  /\ Len(h) = Len(suffix) + 2
  /\ h[1] # "." /\ h[2] = "."
  /\ SubSeq(h, 3, Len(h)) = suffix
\* candidate c satisfies the suffix rule under configuration cfg
UnderSuffixRule(cfg, c) ==
  /\ c.scheme = "https"
  /\ c.port \in {"", "443"}
  /\ \E i \in 1 .. Len(cfg.allowedReturnHostSuffixes) :
       OneLabelUnder(c, cfg.allowedReturnHostSuffixes[i])
\* the origin of candidate c is one of the configured origins
ExactOrigin(cfg, c) == includes(cfg.allowedReturnOrigins, origin(parseURL(c)))
HasAllowlist(cfg) ==
  cfg.allowedReturnOrigins # <<>> \/ cfg.allowedReturnHostSuffixes # <<>>

\* C28: a parsable URL that no configured origin matches is accepted only
\* when its scheme is https, its port is absent or 443, and its host name is
\* exactly one non-empty label in front of "." and a configured suffix.
\* With the suffix dima-ai.com alone, https://dev-blana.dima-ai.com is
\* accepted and https://a.b.dima-ai.com, http://dev-blana.dima-ai.com and
\* https://dima-ai.com are rejected.
C28_SuffixRule ==
  [][ValidateStep
     => LET c == fnCall'.arg
            r == fnCall'.result IN
        /\ (/\ c.kind = "url" /\ r = c
            /\ HasAllowlist(config) /\ ~ExactOrigin(config, c))
           => UnderSuffixRule(config, c)
        /\ config = Config.suffixOnly
           => /\ c = ReturnTo.devBlana => r = c
              /\ c \in {ReturnTo.multiLevel, ReturnTo.devBlanaHttp, ReturnTo.apex} => r = NullString]_vars

C28_Witness ==
  /\ fnCall.op = "validateReturnTo"
  /\ config.allowedReturnHostSuffixes = Config.twoSuffixes.allowedReturnHostSuffixes
  /\ fnCall.arg = ReturnTo.devBlanaUpper443
  /\ fnCall.result = ReturnTo.devBlanaUpper443

\* C29: validateReturnTo returns null for every candidate that does not
\* parse as a URL; with no origins and no suffixes configured it returns
\* every parsable candidate; with an allowlist it returns a candidate whose
\* origin is a configured origin, and null for one that neither a
\* configured origin nor the suffix rule matches.  It returns the candidate
\* or null, and changes neither the configuration nor any table.
C29_ValidateReturnTo ==
  [][ValidateStep
     => LET c == fnCall'.arg
            r == fnCall'.result
            parsable == c.kind = "url" /\ (c.host # <<>> \/ c.scheme \notin SpecialSchemes) IN
        /\ ~parsable => r = NullString
        /\ (parsable /\ ~HasAllowlist(config)) => r = c
        /\ (parsable /\ HasAllowlist(config) /\ ExactOrigin(config, c)) => r = c
        /\ (/\ parsable /\ HasAllowlist(config)
            /\ ~ExactOrigin(config, c) /\ ~UnderSuffixRule(config, c))
           => r = NullString
        /\ r \in {c, NullString}
        /\ config' = config
        /\ tokens' = tokens /\ users' = users /\ sessions' = sessions]_vars

\* an http URL on a non-default port is accepted through its exact origin
C29_Witness ==
  /\ fnCall.op = "validateReturnTo"
  /\ config.allowedReturnOrigins = Config.twoOrigins.allowedReturnOrigins
  /\ fnCall.arg = ReturnTo.devBlana8443
  /\ fnCall.result = ReturnTo.devBlana8443

\* C30: the credential issueJwt signs carries the user's id and email next
\* to the signer's iat and exp, and nothing else: whatever the connection
\* table holds, it has no granted services in it.
C30_JwtUserIdAndEmailOnly ==
  [][(fnCall.op = "none" /\ fnCall'.op = "issueJwt")
     => LET jwt == fnCall'.result IN
        /\ DOMAIN jwt \ {"iat", "exp"} = {"userId", "email"}
        /\ jwt.userId = fnCall'.arg
        /\ jwt.email \in {NULL} \cup {users[u].email : u \in DOMAIN users}
        /\ jwt.exp = jwt.iat + jwtExpiresInSeconds
        /\ tokens' = tokens /\ users' = users]_vars

C30_Witness ==
  /\ fnCall.op = "issueJwt"
  /\ fnCall.arg = 1
  /\ \E i \in 1 .. Len(tokens) :
       tokens[i].user_id = 1 /\ ~Falsy(tokens[i].refresh_token)
  /\ fnCall.result.userId = 1
  /\ fnCall.result.email = "ann@example.org"

\* p's exchangeCodeAndStoreTokens passes its last await in this step
ExStoreStep(p) == pc[p] = "profiling" /\ pc'[p] = "done"

\* C31: once the code exchange has succeeded, exchangeCodeAndStoreTokens
\* completes without error and the row of its tuple holds the exchanged
\* tokens, whether the profile fetch succeeded or failed.
C31_ProfileFetchBestEffort ==
  [][\A p \in Procs :
       ExStoreStep(p)
       => /\ ret'[p] = Returned(NULL)
          /\ RowFor(tokens', call[p]) # NoRow
          /\ RowFor(tokens', call[p]).access_token
               = Or(resp[p].credentials.access_token, NULL)]_vars

UpsertUserStep == fnCall.op = "none" /\ fnCall'.op = "upsertUser"

\* C32 as stated: upsertUser succeeds for every store state and argument.
C32_UpsertUserAlwaysSucceeds ==
  [][UpsertUserStep => fnCall'.result = "ok"]_vars

\* C32: upsertUser(id, email, name, picture) throws, and changes nothing,
\* when the email is not null and recorded for another id.  In every other
\* case it succeeds: the record of id then holds exactly the written email,
\* name and picture, and every other record is as it was.
C32_UpsertUser ==
  [][UpsertUserStep
     => LET a == fnCall'.arg
            taken == /\ a.email # NULL
                     /\ \E v \in DOMAIN users : v # a.id /\ users[v].email = a.email IN
        IF taken
        THEN fnCall'.result = "throw" /\ users' = users
        ELSE /\ fnCall'.result = "ok"
             /\ DOMAIN users' = DOMAIN users \cup {a.id}
             /\ users'[a.id] = [email |-> a.email, name |-> a.name, picture |-> a.picture]
             /\ \A v \in DOMAIN users : v # a.id => users'[v] = users[v]]_vars

\* an existing record overwritten with nulls: nothing of the old one is kept
C32_Witness ==
  /\ fnCall.op = "upsertUser"
  /\ fnCall.result = "ok"
  /\ fnCall.arg.id = 2
  /\ fnCall.arg.email = NULL /\ fnCall.arg.name = NULL
  /\ 1 \in DOMAIN users /\ 2 \in DOMAIN users
  /\ users[2] = [email |-> NULL, name |-> NULL, picture |-> fnCall.arg.picture]

\* C33: a user without connection rows gets one only through a code
\* exchange that succeeds for that user; a refresh that was waiting for the
\* provider while deleteAllTokensForUser ran does not bring the row back.
C33_DeletedStaysDeleted ==
  [][\A u \in Users :
       (/\ \A i \in 1 .. Len(tokens) : tokens[i].user_id # u
        /\ \E i \in 1 .. Len(tokens') : tokens'[i].user_id = u)
       => \E p \in Procs : ExStoreStep(p) /\ call[p].userId = u]_vars

\* C35: a row that holds a refresh token keeps one through every code
\* exchange and every refresh write-back, whether or not the provider's
\* response carries a refresh token; the row loses it only by being deleted
\* by deleteAllTokensForUser for its user.
C35_RefreshTokenDurable ==
  [][\A i \in 1 .. Len(tokens) :
       ~Falsy(tokens[i].refresh_token)
       => \/ \E j \in 1 .. Len(tokens') :
               /\ KeyOf(tokens'[j]) = KeyOf(tokens[i])
               /\ ~Falsy(tokens'[j].refresh_token)
          \/ /\ \A j \in 1 .. Len(tokens') : KeyOf(tokens'[j]) # KeyOf(tokens[i])
             /\ \E p \in Procs :
                  /\ pc[p] = "idle"
                  /\ call'[p].op = "deleteAllTokensForUser"
                  /\ call'[p].userId = tokens[i].user_id]_vars

\* a code exchange and a refresh whose responses carried no refresh token
\* have both written the row, and the row still has the one it had
C35_Witness ==
  /\ IsGv("p1") /\ pc["p1"] = "done"
  /\ resp["p1"].kind = "ok" /\ resp["p1"].credentials.refresh_token = NULL
  /\ call["p2"].op = "exchangeCodeAndStoreTokens" /\ pc["p2"] = "done"
  /\ CallKey(call["p2"]) = CallKey(call["p1"])
  /\ ret["p2"] = Returned(NULL)
  /\ resp["p2"].credentials.refresh_token = NULL
  /\ snap["p1"].refresh_token # NULL
  /\ RowFor(tokens, call["p1"]).refresh_token = snap["p1"].refresh_token

\* C36: a token returned by getValidAccessToken is the stored access token
\* of a row whose expiry is more than 30 s after now, or the access token
\* of the provider's response to this call.
C36_NeverReturnsStale ==
  [][\A p \in Procs :
       /\ (GvEnterStep(p) /\ pc'[p] = "done" /\ ret'[p].val # NULL)
          => /\ ret'[p] = Returned(snap'[p].access_token)
             /\ snap'[p].expiry_date > now' + Skew
       /\ (IsGv(p) /\ GvOkStep(p) /\ ret'[p].val # NULL)
          => ret'[p] = Returned(resp'[p].credentials.access_token)]_vars

\* C37: for a row with a refresh token getValidAccessToken returns an
\* access token or throws the provider's error; it returns null only when
\* there is no row or the row has no refresh token.
C37_NullOnlyWhenNotConnected ==
  [][\A p \in Procs :
       (/\ IsGv(p) \/ GvEnterStep(p)
        /\ pc[p] # "done" /\ pc'[p] = "done"
        /\ ret'[p] = Returned(NULL))
       => \/ snap'[p] = NoRow
          \/ Falsy(snap'[p].refresh_token)]_vars

\* C34: the callback issues a credential and a session for user u only on
\* a state value that a connect request for u produced.
C34_StateFromConnect ==
  [][(fnCall.op = "none" /\ fnCall'.op = "callback")
     => /\ fnCall'.result.ok => fnCall'.arg \in oauthStates
        /\ Len(sessions') > Len(sessions)
           => \E s \in oauthStates :
                s.userId = sessions'[Len(sessions')].user_id]_vars

\* C38: no step removes a session row or changes the user_id,
\* refresh_token_hash or expires_at of one, and a revoked_at that is set
\* keeps its value through every later rotate and revoke.
C38_RevocationPermanent ==
  [][/\ Len(sessions') >= Len(sessions)
     /\ \A i \in 1 .. Len(sessions) :
          /\ sessions'[i].user_id = sessions[i].user_id
          /\ sessions'[i].refresh_token_hash = sessions[i].refresh_token_hash
          /\ sessions'[i].expires_at = sessions[i].expires_at
          /\ sessions[i].revoked_at # NullInt
             => sessions'[i].revoked_at = sessions[i].revoked_at]_vars

\* a session revoked before the clock moved has been presented to
\* revokeRefreshSession twice and to rotateRefreshSession
C38_Witness ==
  \E i \in 1 .. Len(sessions) :
    /\ sessions[i].revoked_at # NullInt
    /\ sessions[i].revoked_at < now
    /\ \E r1, r2 \in Slots :
         /\ r1 # r2
         /\ spc[r1] = "done" /\ sreq[r1].op = "revokeRefreshSession"
         /\ spc[r2] = "done" /\ sreq[r2].op = "revokeRefreshSession"
         /\ sha256Hex(sreq[r1].tok) = sessions[i].refresh_token_hash
         /\ sha256Hex(sreq[r2].tok) = sessions[i].refresh_token_hash

\* C39: no token request and no status request reads, refreshes or lists a
\* row with workspace_id 0: both answer 400 to a workspaceId that is not a
\* positive integer, before they touch the store; a row with workspace_id 0
\* changes only by being deleted by deleteAllTokensForUser for its user.
C39_LegacyRowsUnreachable ==
  [][/\ \A p \in Procs :
          /\ snap'[p].workspace_id = 0 => snap'[p] = NoRow
          /\ call'[p].op = "getValidAccessToken" => call'[p].workspaceId > 0
     /\ (fnCall.op = "none" /\ fnCall'.op = "status")
        => \/ fnCall'.result.status \in {400, 401}
           \/ /\ fnCall'.arg[2].finite /\ fnCall'.arg[2].tenths >= 10
              /\ \A i \in 1 .. Len(fnCall'.result.connections) :
                   \E j \in 1 .. Len(tokens) :
                     /\ tokens[j].workspace_id > 0
                     /\ tokens[j].agent_id = fnCall'.result.connections[i].agent_id
                     /\ tokens[j].service = fnCall'.result.connections[i].service
     /\ \A i \in 1 .. Len(tokens) :
          tokens[i].workspace_id = 0
          => \/ \E j \in 1 .. Len(tokens') : tokens'[j] = tokens[i]
             \/ \E p \in Procs :
                  /\ pc[p] = "idle"
                  /\ call'[p].op = "deleteAllTokensForUser"
                  /\ call'[p].userId = tokens[i].user_id]_vars

\* a token request and a status request with workspaceId 0.5 were both
\* answered 400 while the user's legacy row is in the store
C39_Witness ==
  /\ \E i \in 1 .. Len(tokens) : tokens[i].workspace_id = 0 /\ tokens[i].user_id = 1
  /\ fnCall.op = "status" /\ fnCall.arg[1] = 1
  /\ fnCall.arg[2] = [finite |-> TRUE, tenths |-> 5] /\ fnCall.arg[3] = "acme"
  /\ fnCall.result.status = 400
  /\ \E p \in Procs :
       /\ call[p].op = "getToken" /\ call[p].userId = 1
       /\ call[p].agentId = "legacy" /\ call[p].service = "drive"
       /\ ret[p] = [kind |-> "status", val |-> "400 Bad Request"]

====
